---- MODULE Spec2Model ----
(***************************************************************************)
(* Model of railway-postgres-backup: the filename codec (internal/utils),  *)
(* the rate limiter (internal/ratelimit), the retrying storage adapter and *)
(* the S3/GCS backends (internal/storage) and the orchestrator             *)
(* (internal/backup/orchestrator.go).                                      *)
(*                                                                         *)
(* Strings are sequences of one-character strings.  An instant (Go         *)
(* time.Time) is a record [d, ms, ns]: days since 1970-01-01 UTC,          *)
(* milliseconds within the day, nanoseconds within the millisecond.  The   *)
(* process's local time zone is UTC.                                       *)
(***************************************************************************)
EXTENDS Integers, Sequences, FiniteSets, TLC

\* ------------------------------------------------------------------------
\* time.Time
\* ------------------------------------------------------------------------
MsPerSecond == 1000
MsPerHour == 3600000
MsPerDay == 86400000

Instant(d, ms, ns) == [d |-> d, ms |-> ms, ns |-> ns]

\* time.Time{} is January 1, year 1, 00:00:00 UTC
ZeroTime == Instant(-719162, 0, 0)

IsZero(t) == t = ZeroTime

\* t.Before(u)
Before(t, u) ==
    \/ t.d < u.d
    \/ t.d = u.d /\ t.ms < u.ms
    \/ t.d = u.d /\ t.ms = u.ms /\ t.ns < u.ns

\* t.After(u)
After(t, u) == Before(u, t)

\* t.Add(n milliseconds), n of either sign, |n| below 2^31 - MsPerDay
AddMs(t, n) ==
    LET total == t.ms + n
    IN  Instant(t.d + (total \div MsPerDay), total % MsPerDay, t.ns)

\* t.AddDate(0, 0, days) in the UTC location
AddDays(t, days) == Instant(t.d + days, t.ms, t.ns)

\* t.Truncate(time.Millisecond)
TruncateMs(t) == Instant(t.d, t.ms, 0)

\* the instant cut to whole seconds, as a layout without fractional seconds
\* prints it
TruncateSec(t) == Instant(t.d, t.ms - (t.ms % MsPerSecond), 0)

\* proleptic Gregorian calendar, as time.Time.Date and time.Date compute it
CivilFromDays(z0) ==
    LET z == z0 + 719468
        era == z \div 146097
        doe == z - era * 146097
        yoe == (doe - (doe \div 1460) + (doe \div 36524) - (doe \div 146096)) \div 365
        doy == doe - (365 * yoe + (yoe \div 4) - (yoe \div 100))
        mp == (5 * doy + 2) \div 153
        day == doy - ((153 * mp + 2) \div 5) + 1
        month == IF mp < 10 THEN mp + 3 ELSE mp - 9
        year == yoe + era * 400 + (IF month <= 2 THEN 1 ELSE 0)
    IN  [year |-> year, month |-> month, day |-> day]

DaysFromCivil(year, month, day) ==
    LET y == IF month <= 2 THEN year - 1 ELSE year
        era == y \div 400
        yoe == y - era * 400
        mp == IF month > 2 THEN month - 3 ELSE month + 9
        doy == ((153 * mp + 2) \div 5) + day - 1
        doe == yoe * 365 + (yoe \div 4) - (yoe \div 100) + doy
    IN  era * 146097 + doe - 719468

IsLeap(year) == (year % 4 = 0) /\ ((year % 100 # 0) \/ (year % 400 = 0))

DaysIn(month, year) ==
    IF month = 2 THEN (IF IsLeap(year) THEN 29 ELSE 28)
    ELSE IF month \in {4, 6, 9, 11} THEN 30 ELSE 31

\* time.Date(year, month, day, hour, min, sec, ms*1e6 + ns, time.UTC)
Date(year, month, day, hour, min, sec, ms, ns) ==
    Instant(DaysFromCivil(year, month, day),
            hour * MsPerHour + min * 60000 + sec * MsPerSecond + ms, ns)

\* ------------------------------------------------------------------------
\* time.Duration
\* ------------------------------------------------------------------------
\* A duration is a record [ms, ns]: whole milliseconds of either sign, rounded
\* down, and the nanoseconds above them, 0 <= ns < NsPerMs.
NsPerMs == 1000000
MsPerMinute == 60000

Duration(ms, ns) == [ms |-> ms, ns |-> ns]

\* time.Duration(n) * time.Millisecond
Milliseconds(n) == Duration(n, 0)

\* t.Sub(u), for instants less than 24 days apart
Sub(t, u) ==
    LET ms == (t.d - u.d) * MsPerDay + (t.ms - u.ms)
    IN  IF t.ns >= u.ns THEN Duration(ms, t.ns - u.ns)
        ELSE Duration(ms - 1, t.ns - u.ns + NsPerMs)

\* t.Add(-d)
AddNeg(t, d) ==
    IF t.ns >= d.ns THEN AddMs(Instant(t.d, t.ms, t.ns - d.ns), 0 - d.ms)
    ELSE AddMs(Instant(t.d, t.ms, t.ns - d.ns + NsPerMs), 0 - d.ms - 1)

\* d - e
DurationMinus(d, e) ==
    IF d.ns >= e.ns THEN Duration(d.ms - e.ms, d.ns - e.ns)
    ELSE Duration(d.ms - e.ms - 1, d.ns - e.ns + NsPerMs)

\* d < e
DurationLess(d, e) == d.ms < e.ms \/ (d.ms = e.ms /\ d.ns < e.ns)

\* ------------------------------------------------------------------------
\* strings
\* ------------------------------------------------------------------------
DigitChars == <<"0", "1", "2", "3", "4", "5", "6", "7", "8", "9">>

IsDigit(c) == \E i \in 1..10 : DigitChars[i] = c

DigitVal(c) == (CHOOSE i \in 1..10 : DigitChars[i] = c) - 1

\* fmt "%0<w>d" of n with 0 <= n < 10^w
RECURSIVE Pad(_, _)
Pad(n, w) ==
    IF w = 0 THEN <<>> ELSE Pad(n \div 10, w - 1) \o <<DigitChars[(n % 10) + 1]>>

\* fmt "%d" of n >= 0
RECURSIVE Itoa(_)
Itoa(n) ==
    IF n < 10 THEN <<DigitChars[n + 1]>> ELSE Itoa(n \div 10) \o <<DigitChars[(n % 10) + 1]>>

\* strconv-style value of a string of decimal digits
RECURSIVE Atoi(_)
Atoi(s) ==
    IF s = <<>> THEN 0 ELSE 10 * Atoi(SubSeq(s, 1, Len(s) - 1)) + DigitVal(s[Len(s)])

AllDigits(s) == \A i \in 1..Len(s) : IsDigit(s[i])

\* strings.HasSuffix / strings.HasPrefix / strings.TrimSuffix
HasSuffix(s, suf) ==
    /\ Len(s) >= Len(suf)
    /\ SubSeq(s, Len(s) - Len(suf) + 1, Len(s)) = suf

HasPrefix(s, pre) ==
    /\ Len(s) >= Len(pre)
    /\ SubSeq(s, 1, Len(pre)) = pre

TrimSuffix(s, suf) ==
    IF HasSuffix(s, suf) THEN SubSeq(s, 1, Len(s) - Len(suf)) ELSE s

\* index of the first occurrence of character c in s, 0 when absent
IndexChar(s, c) ==
    IF \E i \in 1..Len(s) : s[i] = c
    THEN CHOOSE i \in 1..Len(s) : s[i] = c /\ \A j \in 1..(i - 1) : s[j] # c
    ELSE 0

\* strings.Fields: the maximal runs of non-space characters
RECURSIVE Fields(_)
Fields(s) ==
    IF s = <<>> THEN <<>>
    ELSE IF s[1] = " " THEN Fields(Tail(s))
    ELSE LET sp == IndexChar(s, " ")
         IN  IF sp = 0 THEN <<s>>
             ELSE <<SubSeq(s, 1, sp - 1)>> \o Fields(SubSeq(s, sp + 1, Len(s)))

\* strings.Contains(s, sub)
Contains(s, sub) ==
    \E i \in 1..(Len(s) - Len(sub) + 1) : SubSeq(s, i, i + Len(sub) - 1) = sub

\* strings.Count(s, <<c>>) for a character c
RECURSIVE CountChar(_, _)
CountChar(s, c) ==
    IF s = <<>> THEN 0
    ELSE (IF s[1] = c THEN 1 ELSE 0) + CountChar(Tail(s), c)

TarGz == <<".", "t", "a", "r", ".", "g", "z">>
Unknown == <<"u", "n", "k", "n", "o", "w", "n">>
BackupWord == <<"b", "a", "c", "k", "u", "p">>

\* ------------------------------------------------------------------------
\* internal/utils: filename codec
\* ------------------------------------------------------------------------
\* t.Format("2006-01-02T15-04-05") of an instant whose year is in 0..9999
FormatDashed(t) ==
    LET c == CivilFromDays(t.d)
        sec == t.ms \div MsPerSecond
    IN  Pad(c.year, 4) \o <<"-">> \o Pad(c.month, 2) \o <<"-">> \o Pad(c.day, 2)
        \o <<"T">> \o Pad(sec \div 3600, 2) \o <<"-">> \o Pad((sec \div 60) % 60, 2)
        \o <<"-">> \o Pad(sec % 60, 2)

\* the loop over strings.Fields(pgVersion): the text before the first dot of
\* the first field that has a dot, "unknown" when no field has one
RECURSIVE VersionPartOf(_)
VersionPartOf(parts) ==
    IF parts = <<>> THEN Unknown
    ELSE LET dot == IndexChar(parts[1], ".")
         IN  IF dot > 0 THEN SubSeq(parts[1], 1, dot - 1)
             ELSE VersionPartOf(Tail(parts))

VersionPart(pgVersion) ==
    IF pgVersion # <<>> /\ pgVersion # Unknown
    THEN VersionPartOf(Fields(pgVersion))
    ELSE Unknown

TimeStr_Unpadded(timestamp) ==
    FormatDashed(timestamp) \o <<"-">> \o Itoa(timestamp.ms % MsPerSecond) \o <<"Z">>

\* fmt.Sprintf("%s-%03dZ", t.Format("2006-01-02T15-04-05"), ms)
TimeStr(timestamp) ==
    FormatDashed(timestamp) \o <<"-">> \o Pad(timestamp.ms % MsPerSecond, 3) \o <<"Z">>

GenerateBackupFilename(prefix, timestamp, pgVersion) ==
    LET head == IF prefix # <<>> THEN TrimSuffix(prefix, <<"-">>) ELSE BackupWord
    IN  head \o <<"-", "p", "g">> \o VersionPart(pgVersion) \o <<"-">>
        \o TimeStr(timestamp) \o TarGz

\* fmt.Sscanf(s, "%d", &ms): leading spaces skipped, an optional sign, then
\* the longest run of digits; ms stays 0 when no digit is found
RECURSIVE DigitRun(_)
DigitRun(s) ==
    IF s # <<>> /\ IsDigit(s[1]) THEN <<s[1]>> \o DigitRun(Tail(s)) ELSE <<>>

RECURSIVE ScanInt(_)
ScanInt(s) ==
    IF s = <<>> THEN 0
    ELSE IF s[1] = " " THEN ScanInt(Tail(s))
    ELSE IF s[1] = "-" THEN 0 - Atoi(DigitRun(Tail(s)))
    ELSE IF s[1] = "+" THEN Atoi(DigitRun(Tail(s)))
    ELSE Atoi(DigitRun(s))

\* time.Parse("2006-01-02T15-04-05", s) of a 19-character string
ParseDashed(s) ==
    LET shape == /\ Len(s) = 19
                 /\ s[5] = "-" /\ s[8] = "-" /\ s[11] = "T" /\ s[14] = "-" /\ s[17] = "-"
                 /\ AllDigits(SubSeq(s, 1, 4)) /\ AllDigits(SubSeq(s, 6, 7))
                 /\ AllDigits(SubSeq(s, 9, 10)) /\ AllDigits(SubSeq(s, 12, 13))
                 /\ AllDigits(SubSeq(s, 15, 16)) /\ AllDigits(SubSeq(s, 18, 19))
        year == Atoi(SubSeq(s, 1, 4))
        month == Atoi(SubSeq(s, 6, 7))
        day == Atoi(SubSeq(s, 9, 10))
        hour == Atoi(SubSeq(s, 12, 13))
        min == Atoi(SubSeq(s, 15, 16))
        sec == Atoi(SubSeq(s, 18, 19))
    IN  IF shape /\ month \in 1..12 /\ day >= 1 /\ day <= DaysIn(month, year)
           /\ hour < 24 /\ min < 60 /\ sec < 60
        THEN [ok |-> TRUE, t |-> Date(year, month, day, hour, min, sec, 0, 0)]
        ELSE [ok |-> FALSE, t |-> ZeroTime]

ParseBackupFilename(filename) ==
    LET name == TrimSuffix(filename, TarGz)
        timeStr == SubSeq(name, Len(name) - 23, Len(name))
        base == ParseDashed(SubSeq(timeStr, 1, 19))
        ms == ScanInt(SubSeq(timeStr, 21, 23))
    IN  IF Len(name) < 24 THEN [ok |-> FALSE, t |-> ZeroTime]
        ELSE IF ~HasSuffix(timeStr, <<"Z">>) THEN [ok |-> FALSE, t |-> ZeroTime]
        ELSE IF ~base.ok THEN [ok |-> FALSE, t |-> ZeroTime]
        ELSE [ok |-> TRUE, t |-> AddMs(base.t, ms)]

\* ------------------------------------------------------------------------
\* internal/ratelimit: TimeBasedLimiter
\* ------------------------------------------------------------------------
\* config.GetRespawnProtectionDuration, in milliseconds
GetRespawnProtectionDuration(hours) == hours * MsPerHour

\* timeSinceLastBackup < MinInterval with timeSinceLastBackup = now - lastBackup
SinceLessThan(nowT, lastBackup, minInterval) ==
    Before(nowT, AddMs(lastBackup, minInterval))

\* the integer fmt prints for "%.0f" of d / unit, d >= 0 and unit an even
\* number of milliseconds: the quotient rounded to nearest, a tie to even
RoundedUnits(d, unit) ==
    LET q == d.ms \div unit
        r == d.ms % unit
        half == unit \div 2
    IN  IF r > half \/ (r = half /\ d.ns > 0) THEN q + 1
        ELSE IF r = half /\ d.ns = 0 THEN (IF q % 2 = 0 THEN q ELSE q + 1)
        ELSE q

Str_seconds ==
    <<" ", "s", "e", "c", "o", "n", "d", "s">>

Str_minutes ==
    <<" ", "m", "i", "n", "u", "t", "e", "s">>

Str_hours ==
    <<" ", "h", "o", "u", "r", "s">>

\* formatDuration(d).  "%.1f hours" is exact here for every d that is not an
\* odd multiple of three minutes, where the binary value of d.Hours() decides
\* the last digit.
formatDuration(d) ==
    IF DurationLess(d, Milliseconds(MsPerMinute))
    THEN (IF d.ms < 0
          THEN <<"-">> \o Itoa(RoundedUnits(DurationMinus(Milliseconds(0), d), MsPerSecond))
          ELSE Itoa(RoundedUnits(d, MsPerSecond))) \o Str_seconds
    ELSE IF DurationLess(d, Milliseconds(MsPerHour))
    THEN Itoa(RoundedUnits(d, MsPerMinute)) \o Str_minutes
    ELSE LET tenths == RoundedUnits(d, MsPerHour \div 10)
         IN  Itoa(tenths \div 10) \o <<".">> \o Itoa(tenths % 10) \o Str_hours

Reason_Forced ==
    <<"f", "o", "r", "c", "e", "d", " ", "b", "a", "c", "k", "u", "p", " ", "r", "e",
      "q", "u", "e", "s", "t", "e", "d">>

Reason_NoPrevious ==
    <<"n", "o", " ", "p", "r", "e", "v", "i", "o", "u", "s", " ", "b", "a", "c", "k",
      "u", "p", " ", "f", "o", "u", "n", "d">>

Str_LastBackupWas ==
    <<"l", "a", "s", "t", " ", "b", "a", "c", "k", "u", "p", " ", "w", "a", "s", " ">>

Str_Ago ==
    <<" ", "a", "g", "o">>

Str_NextBackupAllowedIn ==
    <<",", " ", "n", "e", "x", "t", " ", "b", "a", "c", "k", "u", "p", " ", "a", "l",
      "l", "o", "w", "e", "d", " ", "i", "n", " ">>

\* fmt.Sprintf("last backup was %s ago", formatDuration(since))
ReasonElapsed(since) == Str_LastBackupWas \o formatDuration(since) \o Str_Ago

\* fmt.Sprintf("last backup was %s ago, next backup allowed in %s", ...)
ReasonWait(since, until) ==
    Str_LastBackupWas \o formatDuration(since) \o Str_Ago
        \o Str_NextBackupAllowedIn \o formatDuration(until)

ShouldBackup_NoInterval(config, lastBackup, nowT) ==
    IF config.ForceBackup
    THEN [proceed |-> TRUE, reason |-> Reason_Forced]
    ELSE IF IsZero(lastBackup)
    THEN [proceed |-> TRUE, reason |-> Reason_NoPrevious]
    ELSE [proceed |-> TRUE, reason |-> ReasonElapsed(Sub(nowT, lastBackup))]

ShouldBackup_NoForce(config, lastBackup, nowT) ==
    IF IsZero(lastBackup)
    THEN [proceed |-> TRUE, reason |-> Reason_NoPrevious]
    ELSE IF SinceLessThan(nowT, lastBackup, config.MinInterval)
    THEN [proceed |-> FALSE,
          reason |-> ReasonWait(Sub(nowT, lastBackup),
                                DurationMinus(Milliseconds(config.MinInterval),
                                              Sub(nowT, lastBackup)))]
    ELSE [proceed |-> TRUE, reason |-> ReasonElapsed(Sub(nowT, lastBackup))]

ShouldBackup_AtMostInterval(config, lastBackup, nowT) ==
    IF config.ForceBackup
    THEN [proceed |-> TRUE, reason |-> Reason_Forced]
    ELSE IF IsZero(lastBackup)
    THEN [proceed |-> TRUE, reason |-> Reason_NoPrevious]
    ELSE IF ~After(nowT, AddMs(lastBackup, config.MinInterval))
    THEN [proceed |-> FALSE,
          reason |-> ReasonWait(Sub(nowT, lastBackup),
                                DurationMinus(Milliseconds(config.MinInterval),
                                              Sub(nowT, lastBackup)))]
    ELSE [proceed |-> TRUE, reason |-> ReasonElapsed(Sub(nowT, lastBackup))]

\* without the IsZero test: time.Since of the zero time saturates at the
\* largest Duration, 2562047.8 hours
ShouldBackup_NoZeroCheck(config, lastBackup, nowT) ==
    IF config.ForceBackup
    THEN [proceed |-> TRUE, reason |-> Reason_Forced]
    ELSE IF IsZero(lastBackup)
    THEN [proceed |-> TRUE,
          reason |-> Str_LastBackupWas
                       \o <<"2", "5", "6", "2", "0", "4", "7", ".", "8">> \o Str_hours
                       \o Str_Ago]
    ELSE IF SinceLessThan(nowT, lastBackup, config.MinInterval)
    THEN [proceed |-> FALSE,
          reason |-> ReasonWait(Sub(nowT, lastBackup),
                                DurationMinus(Milliseconds(config.MinInterval),
                                              Sub(nowT, lastBackup)))]
    ELSE [proceed |-> TRUE, reason |-> ReasonElapsed(Sub(nowT, lastBackup))]

\* ShouldBackup(lastBackup) of a limiter built with config, called at nowT
\* (time.Since(lastBackup) is nowT.Sub(lastBackup))
ShouldBackup(config, lastBackup, nowT) ==
    IF config.ForceBackup
    THEN [proceed |-> TRUE, reason |-> Reason_Forced]
    ELSE IF IsZero(lastBackup)
    THEN [proceed |-> TRUE, reason |-> Reason_NoPrevious]
    ELSE IF SinceLessThan(nowT, lastBackup, config.MinInterval)
    THEN [proceed |-> FALSE,
          reason |-> ReasonWait(Sub(nowT, lastBackup),
                                DurationMinus(Milliseconds(config.MinInterval),
                                              Sub(nowT, lastBackup)))]
    ELSE [proceed |-> TRUE, reason |-> ReasonElapsed(Sub(nowT, lastBackup))]

\* ------------------------------------------------------------------------
\* internal/storage/factory.go: RetryableStorage
\* ------------------------------------------------------------------------
\* durations are in milliseconds; Multiplier is the fraction num/den
RetryConfig(maxAttempts, initialDelay, maxDelay, num, den) ==
    [MaxAttempts |-> maxAttempts, InitialDelay |-> initialDelay, MaxDelay |-> maxDelay,
     Multiplier |-> [num |-> num, den |-> den]]

DefaultRetryConfig == RetryConfig(3, 1000, 10000, 2, 1)

AfterAttempt_NoLastCheck(failed, attempt, maxAttempts) ==
    IF ~failed THEN "nil" ELSE "wait"

\* retry, lines 85-93: what follows an invocation of fn in the loop body
AfterAttempt(failed, attempt, maxAttempts) ==
    IF ~failed THEN "nil"
    ELSE IF attempt = maxAttempts THEN "exhausted"
    ELSE "wait"

\* retry, lines 103-106: the delay after a wait
NextDelay(delay, config) ==
    LET scaled == (delay * config.Multiplier.num) \div config.Multiplier.den
    IN  IF scaled > config.MaxDelay THEN config.MaxDelay ELSE scaled

\* ------------------------------------------------------------------------
\* internal/backup: errors of the psql and pg_dump subprocesses
\* ------------------------------------------------------------------------
\* A Go error is a record [kind, msg, stderr]: kind "nil", "exit" (an
\* *exec.ExitError, stderr its Stderr field) or "error" (any other error);
\* msg is err.Error().
GoError(kind, msg, stderr) == [kind |-> kind, msg |-> msg, stderr |-> stderr]

NilError == GoError("nil", <<>>, <<>>)

Str_ExitStatus2 ==
    <<"e", "x", "i", "t", " ", "s", "t", "a", "t", "u", "s", " ", "2">>

\* the *exec.ExitError of a process that exited with status 2
ExitError(stderr) == GoError("exit", Str_ExitStatus2, stderr)

\* errors.New(msg), fmt.Errorf(msg)
PlainError(msg) == GoError("error", msg, <<>>)

Str_StartingUp ==
    <<"t", "h", "e", " ", "d", "a", "t", "a", "b", "a", "s", "e", " ", "s", "y", "s",
      "t", "e", "m", " ", "i", "s", " ", "s", "t", "a", "r", "t", "i", "n", "g", " ",
      "u", "p">>

Str_SQLSTATE57P03 ==
    <<"S", "Q", "L", "S", "T", "A", "T", "E", " ", "5", "7", "P", "0", "3">>

Str_ConnectionRefused ==
    <<"c", "o", "n", "n", "e", "c", "t", "i", "o", "n", " ", "r", "e", "f", "u", "s",
      "e", "d">>

Str_CouldNotConnect ==
    <<"c", "o", "u", "l", "d", " ", "n", "o", "t", " ", "c", "o", "n", "n", "e", "c",
      "t", " ", "t", "o", " ", "s", "e", "r", "v", "e", "r">>

Str_NoSuchHost ==
    <<"n", "o", " ", "s", "u", "c", "h", " ", "h", "o", "s", "t">>

Str_TimeoutExpired ==
    <<"t", "i", "m", "e", "o", "u", "t", " ", "e", "x", "p", "i", "r", "e", "d">>

Str_Timeout ==
    <<"t", "i", "m", "e", "o", "u", "t">>

isRetryableError_MessageOrStderr(err) ==
    /\ err.kind # "nil"
    /\ \E phrase \in { Str_StartingUp, Str_SQLSTATE57P03, Str_ConnectionRefused,
                        Str_CouldNotConnect, Str_NoSuchHost, Str_Timeout } :
         Contains(err.msg, phrase) \/ Contains(err.stderr, phrase)

isRetryableError(err) ==
    IF err.kind = "nil" THEN FALSE
    ELSE IF err.kind = "exit"
    THEN \/ Contains(err.stderr, Str_StartingUp)
         \/ Contains(err.stderr, Str_SQLSTATE57P03)
         \/ Contains(err.stderr, Str_ConnectionRefused)
         \/ Contains(err.stderr, Str_CouldNotConnect)
         \/ Contains(err.stderr, Str_NoSuchHost)
         \/ Contains(err.stderr, Str_TimeoutExpired)
    ELSE \/ Contains(err.msg, Str_ConnectionRefused)
         \/ Contains(err.msg, Str_NoSuchHost)
         \/ Contains(err.msg, Str_Timeout)

\* ------------------------------------------------------------------------
\* internal/backup: ParsePGVersion
\* ------------------------------------------------------------------------
Str_PostgreSQLSpace ==
    <<"P", "o", "s", "t", "g", "r", "e", "S", "Q", "L", " ">>

\* strings.TrimSpace for texts whose white space is " " and "\n"
RECURSIVE TrimLeft(_)
TrimLeft(s) ==
    IF s # <<>> /\ s[1] \in {" ", "\n"} THEN TrimLeft(Tail(s)) ELSE s

RECURSIVE TrimRight(_)
TrimRight(s) ==
    IF s # <<>> /\ s[Len(s)] \in {" ", "\n"}
    THEN TrimRight(SubSeq(s, 1, Len(s) - 1))
    ELSE s

TrimSpace(s) == TrimRight(TrimLeft(s))

\* the regular expression `PostgreSQL (\d+)\.(\d+)` matches s at index i
VersionMatchAt(s, i) ==
    LET rest == SubSeq(s, i + Len(Str_PostgreSQLSpace), Len(s))
        major == DigitRun(rest)
        after == SubSeq(rest, Len(major) + 1, Len(rest))
    IN  /\ HasPrefix(SubSeq(s, i, Len(s)), Str_PostgreSQLSpace)
        /\ major # <<>>
        /\ after # <<>>
        /\ after[1] = "."
        /\ DigitRun(Tail(after)) # <<>>

\* ParsePGVersion(versionStr): [ok, Major, Minor] from the leftmost match
ParsePGVersion(versionStr) ==
    IF \E i \in 1..Len(versionStr) : VersionMatchAt(versionStr, i)
    THEN LET i == CHOOSE k \in 1..Len(versionStr) :
                      /\ VersionMatchAt(versionStr, k)
                      /\ \A j \in 1..(k - 1) : ~VersionMatchAt(versionStr, j)
             rest == SubSeq(versionStr, i + Len(Str_PostgreSQLSpace), Len(versionStr))
             major == DigitRun(rest)
             minor == DigitRun(SubSeq(rest, Len(major) + 2, Len(rest)))
         IN  [ok |-> TRUE, Major |-> Atoi(major), Minor |-> Atoi(minor)]
    ELSE [ok |-> FALSE, Major |-> 0, Minor |-> 0]

\* ------------------------------------------------------------------------
\* internal/backup: the retry loop of GetInfoWithRetry and
\* getServerVersionWithBinary
\* ------------------------------------------------------------------------
\* durations are in milliseconds
PsqlRetryConfig(maxRetries, initialDelay, maxDelay, backoffFactor) ==
    [MaxRetries |-> maxRetries, InitialDelay |-> initialDelay, MaxDelay |-> maxDelay,
     BackoffFactor |-> backoffFactor]

\* defaultPSQLRetryConfig() with no PSQL_RETRY_* variable set
defaultPSQLRetryConfig == PsqlRetryConfig(5, 2000, 30000, 2)

\* what one run of psql gave: kind "ok" (exit status 0, out its standard
\* output), "exit" (non-zero exit status) or "error" (cmd.Output failed
\* otherwise, msg its message); stderr is what the process wrote to stderr
PsqlOutcome(kind, out, stderr, msg) ==
    [kind |-> kind, out |-> out, stderr |-> stderr, msg |-> msg]

Str_UnexpectedOutput ==
    <<"u", "n", "e", "x", "p", "e", "c", "t", "e", "d", " ", "o", "u", "t", "p", "u",
      "t", " ", "f", "o", "r", "m", "a", "t", " ", "f", "r", "o", "m", " ", "p", "s",
      "q", "l", ":", " ">>

Str_CouldNotParse ==
    <<"c", "o", "u", "l", "d", " ", "n", "o", "t", " ", "p", "a", "r", "s", "e", " ",
      "P", "o", "s", "t", "g", "r", "e", "S", "Q", "L", " ", "v", "e", "r", "s", "i",
      "o", "n", " ", "f", "r", "o", "m", ":", " ">>

\* err after cmd.Output() and the parsing of its output, in fn
PsqlErr(fn, outcome) ==
    IF outcome.kind = "exit" THEN ExitError(outcome.stderr)
    ELSE IF outcome.kind = "error" THEN PlainError(outcome.msg)
    ELSE IF fn = "GetInfoWithRetry"
    THEN IF CountChar(TrimSpace(outcome.out), "|") + 1 # 3
         THEN PlainError(Str_UnexpectedOutput \o outcome.out)
         ELSE NilError
    ELSE IF ~ParsePGVersion(TrimSpace(outcome.out)).ok
         THEN PlainError(Str_CouldNotParse \o TrimSpace(outcome.out))
         ELSE NilError

AfterPsql_RetryAll(err, attempt, maxRetries) ==
    IF err.kind = "nil" THEN "return"
    ELSE IF attempt < maxRetries THEN "wait" ELSE "exhausted"

\* the loop running while attempt + 1 < maxRetries: maxRetries invocations
AfterPsql_AttemptBudget(err, attempt, maxRetries) ==
    IF err.kind = "nil" THEN "return"
    ELSE IF ~isRetryableError(err) THEN "fatal"
    ELSE IF attempt + 1 < maxRetries THEN "wait"
    ELSE "exhausted"

\* what follows an invocation of psql in the loop body: the function
\* returns its value, returns the non-retryable error, goes round the loop
\* to wait, or leaves the loop with its budget spent
AfterPsql(err, attempt, maxRetries) ==
    IF err.kind = "nil" THEN "return"
    ELSE IF ~isRetryableError(err) THEN "fatal"
    ELSE IF attempt < maxRetries THEN "wait"
    ELSE "exhausted"

PsqlNextDelay_Uncapped(delay, config) == delay * config.BackoffFactor

\* delay = time.Duration(math.Min(float64(delay) * BackoffFactor, float64(MaxDelay)))
\* for a whole BackoffFactor
PsqlNextDelay(delay, config) ==
    IF delay * config.BackoffFactor < config.MaxDelay
    THEN delay * config.BackoffFactor
    ELSE config.MaxDelay

AfterWait_ContinueWhenCancelled(ctxDone) == "retry"

\* the select of a retry loop on ctx.Done() and time.After(delay), delay > 0:
\* a context that is cancelled before the timer fires wins the select
AfterWait(ctxDone) == IF ctxDone THEN "cancelled" ELSE "retry"

\* ------------------------------------------------------------------------
\* internal/backup: FindBestPGDump and FindBestPSQL
\* ------------------------------------------------------------------------
\* availableVersions
availableVersions == <<17, 16, 15>>

\* fmt.Sprintf("pg_dump%d", v) / fmt.Sprintf("psql%d", v): a binary is the
\* pair of the tool's name and the version suffix, 0 for the plain name
Binary(tool, v) == [tool |-> tool, v |-> v]

\* the first v of versions, in order, with v >= atLeast whose binary
\* exec.LookPath finds; 0 when there is none
RECURSIVE FirstInstalled(_, _, _, _)
FirstInstalled(tool, versions, atLeast, installed) ==
    IF versions = <<>> THEN 0
    ELSE IF versions[1] >= atLeast /\ Binary(tool, versions[1]) \in installed
    THEN versions[1]
    ELSE FirstInstalled(tool, Tail(versions), atLeast, installed)

\* the search without its last resort: the plain name whenever no versioned
\* client at or above the target is installed
FindBest_NoLastResort(tool, major, installed) ==
    LET targetVersion == IF major < 15 THEN 15 ELSE major
        closest == FirstInstalled(tool, availableVersions, targetVersion, installed)
    IN  IF Binary(tool, targetVersion) \in installed
        THEN [ok |-> TRUE, bin |-> Binary(tool, targetVersion)]
        ELSE IF closest # 0 THEN [ok |-> TRUE, bin |-> Binary(tool, closest)]
        ELSE [ok |-> TRUE, bin |-> Binary(tool, 0)]

\* FindBestPGDump (tool "pg_dump") and FindBestPSQL (tool "psql")
FindBest(tool, major, installed) ==
    LET targetVersion == IF major < 15 THEN 15 ELSE major
        closest == FirstInstalled(tool, availableVersions, targetVersion, installed)
        newest == FirstInstalled(tool, availableVersions, 0, installed)
    IN  IF Binary(tool, targetVersion) \in installed
        THEN [ok |-> TRUE, bin |-> Binary(tool, targetVersion)]
        ELSE IF closest # 0 THEN [ok |-> TRUE, bin |-> Binary(tool, closest)]
        ELSE IF Binary(tool, 0) \in installed THEN [ok |-> TRUE, bin |-> Binary(tool, 0)]
        ELSE IF newest # 0 THEN [ok |-> TRUE, bin |-> Binary(tool, newest)]
        ELSE [ok |-> FALSE, bin |-> Binary(tool, 0)]

findAvailablePSQL_Plain(installed) == Binary("psql", 0)

\* findAvailablePSQL: the newest versioned psql that exec.LookPath finds,
\* else the plain name
findAvailablePSQL(installed) ==
    Binary("psql", FirstInstalled("psql", <<17, 16, 15>>, 0, installed))

\* the *PostgresBackup that NewPostgresBackup returns, given what
\* GetServerVersion answered (probe: [ok, Major]) and the binaries on the PATH
NewPostgresBackup(probe, installed) ==
    LET availablePSQL == findAvailablePSQL(installed)
        pgDump == FindBest("pg_dump", probe.Major, installed)
        psql == FindBest("psql", probe.Major, installed)
    IN  [pgDumpBin |-> IF probe.ok /\ pgDump.ok THEN pgDump.bin ELSE Binary("pg_dump", 0),
         psqlBin |-> IF probe.ok /\ psql.ok THEN psql.bin ELSE availablePSQL]

\* ------------------------------------------------------------------------
\* internal/storage: the S3 and GCS backends over a bucket
\* ------------------------------------------------------------------------
\* A bucket is a sequence of objects [key, lastModified, metadata]; key is
\* the full object name, metadata a function from metadata names to strings.
NoMetadata == [n \in {} |-> <<>>]

Object(key, lastModified, metadata) ==
    [key |-> key, lastModified |-> lastModified, metadata |-> metadata]

\* timestamp.Format(time.RFC3339) in the UTC location
FormatRFC3339(t) ==
    LET c == CivilFromDays(t.d)
        sec == t.ms \div MsPerSecond
    IN  Pad(c.year, 4) \o <<"-">> \o Pad(c.month, 2) \o <<"-">> \o Pad(c.day, 2)
        \o <<"T">> \o Pad(sec \div 3600, 2) \o <<":">> \o Pad((sec \div 60) % 60, 2)
        \o <<":">> \o Pad(sec % 60, 2) \o <<"Z">>

\* time.Parse(time.RFC3339, s) for the "Z" form without fractional seconds
ParseRFC3339(s) ==
    LET shape == /\ Len(s) = 20
                 /\ s[5] = "-" /\ s[8] = "-" /\ s[11] = "T" /\ s[14] = ":" /\ s[17] = ":"
                 /\ s[20] = "Z"
                 /\ AllDigits(SubSeq(s, 1, 4)) /\ AllDigits(SubSeq(s, 6, 7))
                 /\ AllDigits(SubSeq(s, 9, 10)) /\ AllDigits(SubSeq(s, 12, 13))
                 /\ AllDigits(SubSeq(s, 15, 16)) /\ AllDigits(SubSeq(s, 18, 19))
        year == Atoi(SubSeq(s, 1, 4))
        month == Atoi(SubSeq(s, 6, 7))
        day == Atoi(SubSeq(s, 9, 10))
        hour == Atoi(SubSeq(s, 12, 13))
        min == Atoi(SubSeq(s, 15, 16))
        sec == Atoi(SubSeq(s, 18, 19))
    IN  IF shape /\ month \in 1..12 /\ day >= 1 /\ day <= DaysIn(month, year)
           /\ hour < 24 /\ min < 60 /\ sec < 60
        THEN [ok |-> TRUE, t |-> Date(year, month, day, hour, min, sec, 0, 0)]
        ELSE [ok |-> FALSE, t |-> ZeroTime]

\* path.Join(prefix, key) for a prefix without slashes
getFullKey(prefix, key) ==
    IF prefix = <<>> THEN key
    ELSE IF key = <<>> THEN prefix
    ELSE prefix \o <<"/">> \o key

\* key[len(prefix)+1:]
stripPrefix(prefix, key) ==
    IF prefix = <<>> THEN key
    ELSE SubSeq(key, Len(prefix) + 2, Len(key))

\* Storage.List(prefix): S3 leaves Metadata empty, GCS copies attrs.Metadata
List(provider, backendPrefix, bucket, prefix) ==
    LET fullPrefix == getFullKey(backendPrefix, prefix)
        matching == SelectSeq(bucket, LAMBDA o : HasPrefix(o.key, fullPrefix))
    IN  [i \in 1..Len(matching) |->
            Object(stripPrefix(backendPrefix, matching[i].key),
                   matching[i].lastModified,
                   IF provider = "s3" THEN NoMetadata ELSE matching[i].metadata)]

\* the listed objects that sort.Slice (descending LastModified, not stable)
\* may leave at index 0
MostRecent(objects) ==
    { i \in 1..Len(objects) :
        \A j \in 1..Len(objects) : ~After(objects[j].lastModified, objects[i].lastModified) }

TimeFromMetadata_LastModifiedOnly(metadata, lastModified) == lastModified

\* the time GetLastBackupTime derives from the newest object, given the
\* metadata it could read for it
TimeFromMetadata(metadata, lastModified) ==
    IF "backup-timestamp" \in DOMAIN metadata
          /\ ParseRFC3339(metadata["backup-timestamp"]).ok
    THEN ParseRFC3339(metadata["backup-timestamp"]).t
    ELSE lastModified

\* metadata of the object stored under a full key (HeadObject)
HeadMetadata(bucket, fullKey) ==
    LET hits == SelectSeq(bucket, LAMBDA o : o.key = fullKey)
    IN  IF hits = <<>> THEN NoMetadata ELSE hits[1].metadata

\* GetLastBackupTime once List("") has succeeded: first is the index sort
\* left in front; headOk says whether the S3 HeadObject call succeeded
GetLastBackupTime(provider, backendPrefix, bucket, first, headOk) ==
    LET objects == List(provider, backendPrefix, bucket, <<>>)
        newest == objects[first]
    IN  IF Len(objects) = 0 THEN ZeroTime
        ELSE IF provider = "s3"
        THEN IF ~headOk THEN newest.lastModified
             ELSE TimeFromMetadata(
                      HeadMetadata(bucket, getFullKey(backendPrefix, newest.key)),
                      newest.lastModified)
        ELSE TimeFromMetadata(newest.metadata, newest.lastModified)

\* Upload(key, reader, metadata) completing at nowT: the object replaces any
\* object of the same name
Upload(backendPrefix, bucket, key, metadata, nowT) ==
    LET fullKey == getFullKey(backendPrefix, key)
    IN  Append(SelectSeq(bucket, LAMBDA o : o.key # fullKey),
               Object(fullKey, nowT, metadata))

\* Delete(key)
Delete(backendPrefix, bucket, key) ==
    SelectSeq(bucket, LAMBDA o : o.key # getFullKey(backendPrefix, key))

\* ------------------------------------------------------------------------
\* internal/backup: orchestrator helpers
\* ------------------------------------------------------------------------
Str_testdb == <<"t", "e", "s", "t", "d", "b">>
ToolName == <<"r", "a", "i", "l", "w", "a", "y", "-", "p", "o", "s", "t", "g", "r", "e", "s",
              "-", "b", "a", "c", "k", "u", "p">>

DatabaseInfo(name, size, version) == [Name |-> name, Size |-> size, Version |-> version]

\* the info Run substitutes when GetInfo fails
SentinelInfo == DatabaseInfo(Unknown, 0, Unknown)

StorageKey_Bare(timestamp, filename) == filename

\* fmt.Sprintf("%d/%02d/%s", timestamp.Year(), timestamp.Month(), filename)
StorageKey(timestamp, filename) ==
    LET c == CivilFromDays(timestamp.d)
    IN  Itoa(c.year) \o <<"/">> \o Pad(c.month, 2) \o <<"/">> \o filename

UploadMetadata_ToolWhenKnown(timestamp, info) ==
    IF info.Version = Unknown
    THEN ("backup-timestamp" :> FormatRFC3339(timestamp))
             @@ ("database-name" :> info.Name)
             @@ ("database-version" :> info.Version)
    ELSE ("backup-timestamp" :> FormatRFC3339(timestamp))
             @@ ("database-name" :> info.Name)
             @@ ("database-version" :> info.Version)
             @@ ("backup-tool" :> ToolName)

\* the metadata map Run hands to Upload
UploadMetadata(timestamp, info) ==
    ("backup-timestamp" :> FormatRFC3339(timestamp))
        @@ ("database-name" :> info.Name)
        @@ ("database-version" :> info.Version)
        @@ ("backup-tool" :> ToolName)

BackupTime_LastModified(obj) == obj.lastModified

\* cleanupOldBackups: the time of a listed object, parsed from its key, or
\* its LastModified when the key does not parse
BackupTime(obj) ==
    LET parsed == ParseBackupFilename(obj.key)
    IN  IF parsed.ok THEN parsed.t ELSE obj.lastModified

AfterLastBackupTime_SkipWhenUnknown(fetchErr, proceed) ==
    IF fetchErr \/ ~proceed THEN [pc |-> "done", result |-> "nil"]
    ELSE [pc |-> "info", result |-> "none"]

\* Run after o.storage.GetLastBackupTime returned: the rate limiter is asked
\* only when the fetch succeeded
AfterLastBackupTime(fetchErr, proceed) ==
    IF ~fetchErr /\ ~proceed THEN [pc |-> "done", result |-> "nil"]
    ELSE [pc |-> "info", result |-> "none"]

AfterGetInfo_Abort(infoErr) ==
    IF infoErr THEN [pc |-> "done", result |-> "err"]
    ELSE [pc |-> "dump", result |-> "none"]

\* Run after o.backup.GetInfo returned: its error is only logged
AfterGetInfo(infoErr) == [pc |-> "dump", result |-> "none"]

AfterDump_Ignore(dumpErr) == [pc |-> "upload", result |-> "none"]

\* Run after o.backup.Dump returned
AfterDump(dumpErr) ==
    IF dumpErr THEN [pc |-> "done", result |-> "err"]
    ELSE [pc |-> "upload", result |-> "none"]

AfterUpload_Ignore(uploadErr, retentionDays) ==
    IF retentionDays > 0 THEN [pc |-> "cleanup", result |-> "none"]
    ELSE [pc |-> "done", result |-> "nil"]

\* Run after o.storage.Upload returned
AfterUpload(uploadErr, retentionDays) ==
    IF uploadErr THEN [pc |-> "done", result |-> "err"]
    ELSE IF retentionDays > 0 THEN [pc |-> "cleanup", result |-> "none"]
    ELSE [pc |-> "done", result |-> "nil"]

AfterCleanup_Propagate(cleanupErr) == IF cleanupErr THEN "err" ELSE "nil"

\* Run's result once cleanupOldBackups returned: its error is only logged
AfterCleanup(cleanupErr) == "nil"

AfterDelete_Abort(deleteErr, i, n) == IF deleteErr THEN n + 1 ELSE i + 1

\* the index the sweep continues with after the Delete of object i of n
AfterDelete(deleteErr, i, n) == i + 1

\* ------------------------------------------------------------------------
\* state
\* ------------------------------------------------------------------------
VARIABLES
    cPc,        \* codec exercise: "in", "generated", "parsed"
    cPrefix,    \* prefix handed to GenerateBackupFilename
    cTime,      \* timestamp handed to GenerateBackupFilename
    cVersion,   \* pgVersion handed to GenerateBackupFilename
    cName,      \* the generated filename
    cParsed,    \* result of ParseBackupFilename(cName): [ok, t]
    cfg,            \* config.Config of the deployment
    bucket,         \* the objects in the bucket
    now,            \* the wall clock
    ticks,          \* clock advances made so far
    run,            \* number of the process invocation
    pc,             \* position of Run: "start", "info", "dump", "upload",
                    \* "cleanup", "sweep", "done"; "off" when no run is modelled
    startTime,      \* Run: startTime
    lastErr,        \* Run: GetLastBackupTime returned an error
    lastBackupTime, \* Run: lastBackupTime
    info,           \* Run: info
    timestamp,      \* Run: timestamp
    filename,       \* Run: filename
    storageKey,     \* Run: storageKey
    metadata,       \* Run: metadata
    cutoff,         \* cleanupOldBackups: cutoff
    objects,        \* cleanupOldBackups: objects
    idx,            \* cleanupOldBackups: position of the range loop
    deleted,        \* cleanupOldBackups: deleted
    cleanupErr,     \* what cleanupOldBackups returned: "none", "nil", "err"
    result,         \* what Run returned: "none", "nil", "err"
    calls,          \* the collaborator calls of this run, in order
    bucketAtStart,  \* the bucket when this run started
    prev,           \* summaries of the finished runs
    xCtxDone,       \* Run's ctx is cancelled
    xCancelAt,      \* collaborator calls that had returned when it was cancelled
    rPc,        \* retry: "call" (loop head), "wait" (the select), "done"
    rConfig,    \* RetryableStorage.config
    rOp,        \* the Storage method that called retry
    rFailFirst, \* the wrapped operation fails this many invocations, then succeeds
    rCtxDone,   \* ctx is cancelled
    rAttempt,   \* retry: attempt
    rDelay,     \* retry: delay
    rCalls,     \* invocations of the wrapped operation so far
    rWaits,     \* the delays waited out so far
    rResult,    \* what retry returned: "none", or [kind, cause]
    pPc,        \* psql retry loop: "attempt", "wait", "done"
    pFn,        \* "GetInfoWithRetry" or "getServerVersionWithBinary"
    pConfig,    \* retryConfig
    pCtxDone,   \* ctx is cancelled
    pAttempt,   \* attempt
    pDelay,     \* delay
    pCalls,     \* psql invocations so far
    pWaits,     \* the delays waited out so far
    pLast,      \* the outcome of the latest psql invocation
    pResult,    \* what the function returned: "none", or [kind, ...]
    pErrors,    \* attemptErrors: the attempt numbers recorded
    ePc,        \* classification exercise: "in", "classified"
    ePhrase,    \* the phrase the error's text carries
    eErr,       \* the error handed to isRetryableError
    eRetryable, \* what isRetryableError returned
    fPc,        \* binary selection exercise: "in", "found"
    fTool,      \* "pg_dump" (FindBestPGDump) or "psql" (FindBestPSQL)
    fMajor,     \* serverVersion.Major
    fInstalled, \* the binaries exec.LookPath finds
    fResult,    \* what FindBest... returned: [ok, bin]
    lPc,        \* limiter exercise: "in", "decided"
    lConfig,    \* ratelimit.Config of the limiter
    lNow,       \* the clock when ShouldBackup is called
    lSince,     \* how long before lNow a last backup was made
    lLastBackup, \* the lastBackup handed to ShouldBackup
    lDecision,  \* what ShouldBackup returned: [proceed, reason]
    lEnv,       \* the environment config.Load read
    nPc,        \* NewPostgresBackup exercise: "in", "built"
    nInstalled, \* the binaries exec.LookPath finds
    nProbe,     \* what GetServerVersion answers: [ok, Major]
    nDriver,    \* the *PostgresBackup built: [pgDumpBin, psqlBin]
    sPc,        \* Run's upload: "reading" (an attempt of the wrapped Upload
                \* runs), "wait" (retry waits), "returned" (Run has returned)
    sLen,       \* chunks the dump stream delivers before it ends
    sEnd,       \* how the dump stream ends: "eof" or "err"
    sPos,       \* chunks the counting goroutine has read from the dump stream
    sClosed,    \* Run's deferred reader.Close() has run
    gPc,        \* counting goroutine: "read", "write", "done"
    sPipe,      \* how pw was closed: "open", "eof", "err"
    uAttempt,   \* retry: attempt
    uGot,       \* chunks the running attempt has read from pr
    uTaken,     \* chunks read from pr so far, by all attempts
    sStored,    \* the object a successful attempt stored: [ok, data]
    sResult,    \* what Run returned: "none", "nil", "err"
    dPc,        \* Dump's goroutine: "copy", "close", "wait", "done"
    dLen,       \* chunks pg_dump writes to stdout before it exits
    dExit,      \* pg_dump's exit status: "ok" or "fail"
    dProduced,  \* chunks pg_dump has written to the stdout pipe
    dCopied,    \* chunks io.Copy has read from the stdout pipe
    dPending,   \* io.Copy holds a chunk it is writing to pw
    dRead,      \* writes of pw the caller has read from the stream
    dCaller,    \* the caller's end of the stream: "open", "closed"
    dSawEnd,    \* the caller has read the end of the stream
    dClosedEarly, \* the caller closed the stream before reading its end
    dStream,    \* how pw was closed: "open", "eof", "err"
    dProc       \* pg_dump: "running", "exited", "reaped"

codecVars == <<cPc, cPrefix, cTime, cVersion, cName, cParsed>>

localVars == <<startTime, lastErr, lastBackupTime, info, timestamp, filename,
               storageKey, metadata, cutoff, objects, idx, deleted, cleanupErr>>

ctxVars == <<xCtxDone, xCancelAt>>

runVars == <<cfg, bucket, now, ticks, run, pc, localVars, result, calls,
             bucketAtStart, prev, ctxVars>>

retryVars == <<rPc, rConfig, rOp, rFailFirst, rCtxDone, rAttempt, rDelay, rCalls,
               rWaits, rResult>>

psqlVars == <<pPc, pFn, pConfig, pCtxDone, pAttempt, pDelay, pCalls, pWaits, pLast,
              pResult, pErrors>>

classifyVars == <<ePc, ePhrase, eErr, eRetryable>>

findVars == <<fPc, fTool, fMajor, fInstalled, fResult>>

limiterVars == <<lPc, lConfig, lNow, lSince, lLastBackup, lDecision, lEnv>>

newVars == <<nPc, nInstalled, nProbe, nDriver>>

streamVars == <<sPc, sLen, sEnd, sPos, sClosed, gPc, sPipe, uAttempt, uGot, uTaken, sStored,
                sResult>>

dumpVars == <<dPc, dLen, dExit, dProduced, dCopied, dPending, dRead, dCaller, dSawEnd,
              dClosedEarly, dStream, dProc>>

moreVars == <<newVars, streamVars, dumpVars>>

\* the variables of the driver and limiter exercises
auxVars == <<psqlVars, classifyVars, findVars, limiterVars, moreVars>>

vars == <<codecVars, runVars, retryVars, auxVars>>

\* ------------------------------------------------------------------------
\* inputs
\* ------------------------------------------------------------------------
Str_db == <<"d", "b">>
Str_myapp == <<"m", "y", "-", "a", "p", "p", "-">>
Ver_15_2 == <<"P", "o", "s", "t", "g", "r", "e", "S", "Q", "L", " ", "1", "5", ".", "2">>
Ver_16_0 == <<"1", "6", ".", "0">>
Ver_nodot == <<"P", "o", "s", "t", "g", "r", "e", "S", "Q", "L">>

Prefixes == {<<>>, Str_db, Str_myapp}

Versions == {Ver_15_2, Ver_16_0, Ver_nodot, <<>>, Unknown}

CodecTimes ==
    { Date(2025, 1, 21, 10, 30, 45, 123, 0),
      Date(2025, 1, 21, 10, 30, 45, 123, 456789),
      Date(2024, 2, 29, 23, 59, 59, 999, 0),
      Date(1999, 12, 31, 0, 0, 0, 7, 0),
      Date(1970, 1, 1, 0, 0, 0, 0, 0),
      Date(2000, 3, 1, 12, 0, 9, 89, 0),
      Date(2025, 11, 5, 7, 8, 9, 10, 500000),
      Date(9999, 12, 31, 23, 59, 59, 900, 0) }

\* the clock when the first run starts
Now0 == Date(2025, 1, 21, 10, 30, 45, 900, 250000)

\* clock advances: 0.6 s, and 0.4 s short of an hour
Deltas == {600, 3599600}

MaxTicks == 2
MaxRuns == 2

RunPrefixes == {<<>>, Str_db}
Hours == {0, 1}
Retentions == {0, 7}
Providers == {"s3", "gcs"}

DbInfos == { DatabaseInfo(Str_testdb, 1048576, Ver_15_2) }

StampOf(t) == "backup-timestamp" :> FormatRFC3339(t)

\* an object named as Run names them: <prefix>/<year>/<month>/<filename>
NestedObject(p, t) ==
    Object(getFullKey(p, StorageKey(t, GenerateBackupFilename(p, t, Ver_15_2))),
           t, StampOf(t))

\* an object named <prefix>/<filename>, modified at lm
FlatObject(p, t, lm, md) ==
    Object(getFullKey(p, GenerateBackupFilename(p, t, Ver_15_2)), lm, md)

\* an object whose name carries no timestamp
NotesObject(p, lm) ==
    Object(getFullKey(p, (IF p = <<>> THEN BackupWord ELSE p)
                          \o <<"-", "n", "o", "t", "e", "s">> \o TarGz),
           lm, NoMetadata)

\* the buckets a first run may find: three backups aged 10, 8 and 2 days
AgedBucket(p) ==
    << FlatObject(p, AddDays(Now0, -10), AddDays(Now0, -10), StampOf(AddDays(Now0, -10))),
       FlatObject(p, AddDays(Now0, -8), AddDays(Now0, -8), StampOf(AddDays(Now0, -8))),
       FlatObject(p, AddDays(Now0, -2), AddDays(Now0, -2), StampOf(AddDays(Now0, -2))) >>

\* an old backup in the year/month layout, a file without a timestamp in
\* its name, and a 12 days old backup copied into place half an hour ago
MixedBucket(p) ==
    << NestedObject(p, AddDays(Now0, -10)),
       NotesObject(p, AddDays(Now0, -9)),
       FlatObject(p, AddDays(Now0, -12), AddMs(Now0, -1800000), NoMetadata) >>

\* one backup made 20 minutes ago whose backup-timestamp is not RFC 3339
RecentBucket(p) ==
    << FlatObject(p, AddMs(Now0, -1200000), AddMs(Now0, -1200000),
                  "backup-timestamp" :> <<"x">>) >>

InitialBuckets(p) == {<<>>, AgedBucket(p), MixedBucket(p), RecentBucket(p)}

RespawnBuckets(p) == {<<>>, RecentBucket(p)}

\* values of the run variables while no run is modelled
RunOff ==
    /\ cfg = [BackupFilePrefix |-> <<>>, RespawnProtectionHours |-> 0,
              ForceBackup |-> FALSE, RetentionDays |-> 0, StorageProvider |-> "s3"]
    /\ bucket = <<>>
    /\ now = Now0
    /\ ticks = 0
    /\ run = 0
    /\ pc = "off"
    /\ startTime = ZeroTime
    /\ lastErr = FALSE
    /\ lastBackupTime = ZeroTime
    /\ info = SentinelInfo
    /\ timestamp = ZeroTime
    /\ filename = <<>>
    /\ storageKey = <<>>
    /\ metadata = NoMetadata
    /\ cutoff = ZeroTime
    /\ objects = <<>>
    /\ idx = 0
    /\ deleted = 0
    /\ cleanupErr = "none"
    /\ result = "none"
    /\ calls = <<>>
    /\ bucketAtStart = <<>>
    /\ prev = <<>>
    /\ xCtxDone = FALSE
    /\ xCancelAt = 0

\* values of the retry variables while no retry is modelled
RetryOff ==
    /\ rPc = "off"
    /\ rConfig = DefaultRetryConfig
    /\ rOp = "none"
    /\ rFailFirst = 0
    /\ rCtxDone = FALSE
    /\ rAttempt = 0
    /\ rDelay = 0
    /\ rCalls = 0
    /\ rWaits = <<>>
    /\ rResult = "none"

\* values of the codec variables while the codec is not exercised
CodecOff ==
    /\ cPc = "off"
    /\ cPrefix = <<>>
    /\ cTime = ZeroTime
    /\ cVersion = <<>>
    /\ cName = <<>>
    /\ cParsed = [ok |-> FALSE, t |-> ZeroTime]

\* values of the psql retry loop variables while no loop is modelled
PsqlOff ==
    /\ pPc = "off"
    /\ pFn = "none"
    /\ pConfig = defaultPSQLRetryConfig
    /\ pCtxDone = FALSE
    /\ pAttempt = 0
    /\ pDelay = 0
    /\ pCalls = 0
    /\ pWaits = <<>>
    /\ pLast = "none"
    /\ pResult = "none"
    /\ pErrors = <<>>

\* values of the classification variables while it is not exercised
ClassifyOff ==
    /\ ePc = "off"
    /\ ePhrase = <<>>
    /\ eErr = NilError
    /\ eRetryable = FALSE

\* values of the binary selection variables while it is not exercised
FindOff ==
    /\ fPc = "off"
    /\ fTool = "none"
    /\ fMajor = 0
    /\ fInstalled = {}
    /\ fResult = [ok |-> FALSE, bin |-> Binary("none", 0)]

\* values of the limiter variables while it is not exercised
LimiterOff ==
    /\ lPc = "off"
    /\ lConfig = [MinInterval |-> 0, ForceBackup |-> FALSE]
    /\ lNow = Now0
    /\ lSince = Milliseconds(0)
    /\ lLastBackup = ZeroTime
    /\ lDecision = [proceed |-> FALSE, reason |-> <<>>]
    /\ lEnv = [RESPAWN_PROTECTION_HOURS |-> <<>>, FORCE_BACKUP |-> <<>>]

NewOff ==
    /\ nPc = "off"
    /\ nInstalled = {}
    /\ nProbe = [ok |-> FALSE, Major |-> 0]
    /\ nDriver = [pgDumpBin |-> Binary("none", 0), psqlBin |-> Binary("none", 0)]

StreamOff ==
    /\ sPc = "off"
    /\ sLen = 0
    /\ sEnd = "eof"
    /\ sPos = 0
    /\ sClosed = FALSE
    /\ gPc = "off"
    /\ sPipe = "open"
    /\ uAttempt = 0
    /\ uGot = <<>>
    /\ uTaken = 0
    /\ sStored = [ok |-> FALSE, data |-> <<>>]
    /\ sResult = "none"

DumpOff ==
    /\ dPc = "off"
    /\ dLen = 0
    /\ dExit = "ok"
    /\ dProduced = 0
    /\ dCopied = 0
    /\ dPending = FALSE
    /\ dRead = 0
    /\ dCaller = "open"
    /\ dSawEnd = FALSE
    /\ dClosedEarly = FALSE
    /\ dStream = "open"
    /\ dProc = "running"

MoreOff == NewOff /\ StreamOff /\ DumpOff

AuxOff == PsqlOff /\ ClassifyOff /\ FindOff /\ LimiterOff /\ MoreOff

\* ------------------------------------------------------------------------
\* filename_test.go TestRoundTrip: generate, then parse
\* ------------------------------------------------------------------------
CodecInit ==
    /\ cPc = "in"
    /\ cPrefix \in Prefixes
    /\ cTime \in CodecTimes
    /\ cVersion \in Versions
    /\ cName = <<>>
    /\ cParsed = [ok |-> FALSE, t |-> ZeroTime]
    /\ RunOff
    /\ RetryOff
    /\ AuxOff

CodecGenerate ==
    /\ cPc = "in"
    /\ cName' = GenerateBackupFilename(cPrefix, cTime, cVersion)
    /\ cPc' = "generated"
    /\ UNCHANGED <<cPrefix, cTime, cVersion, cParsed, runVars, retryVars, auxVars>>

CodecParse ==
    /\ cPc = "generated"
    /\ cParsed' = ParseBackupFilename(cName)
    /\ cPc' = "parsed"
    /\ UNCHANGED <<cPrefix, cTime, cVersion, cName, runVars, retryVars, auxVars>>

CodecNext == CodecGenerate \/ CodecParse

SpecCodec == CodecInit /\ [][CodecNext]_vars

\* C8: for every prefix, version string and UTC timestamp truncated to
\* millisecond precision, parsing the generated filename succeeds and
\* returns exactly that timestamp.
C8_RoundTrip ==
    (cPc = "parsed" /\ cTime = TruncateMs(cTime))
        => (cParsed.ok /\ cParsed.t = cTime)

C8_Witness ==
    /\ cPc = "parsed"
    /\ cTime = TruncateMs(cTime)
    /\ cTime.ms % MsPerSecond = 7
    /\ cPrefix = Str_myapp
    /\ cParsed.ok /\ cParsed.t = cTime

\* ------------------------------------------------------------------------
\* internal/utils: GenerateBackupFilename for the version strings a server
\* may report, ParseBackupFilename for the keys a bucket may hold
\* ------------------------------------------------------------------------
Ver_Cockroach ==
    <<"C", "o", "c", "k", "r", "o", "a", "c", "h", "D", "B", " ", "C", "C", "L", " ",
      "v", "2", "3", ".", "1", ".", "1", "1", " ", "(", "x", "8", "6", "_", "6", "4",
      "-", "p", "c", "-", "l", "i", "n", "u", "x", "-", "g", "n", "u", ")">>
Ver_HostFirst ==
    <<"d", "b", ".", "i", "n", "t", "e", "r", "n", "a", "l", " ", "P", "o", "s", "t",
      "g", "r", "e", "S", "Q", "L", " ", "1", "5", ".", "2">>

VersionTexts == Versions \cup {Ver_Cockroach, Ver_HostFirst}

NameTimes ==
    { Date(2025, 1, 21, 10, 30, 45, 123, 0), Date(1999, 12, 31, 0, 0, 0, 7, 0) }

Key_Head ==
    <<"d", "b", "-", "p", "g", "1", "5", "-">>
Key_Date ==
    <<"2", "0", "2", "5", "-", "0", "1", "-", "2", "1", "T", "1", "0", "-", "3", "0",
      "-", "4", "5">>
Key_DateMonth13 ==
    <<"2", "0", "2", "5", "-", "1", "3", "-", "2", "1", "T", "1", "0", "-", "3", "0",
      "-", "4", "5">>
Key_DateNoT ==
    <<"2", "0", "2", "5", "-", "0", "1", "-", "2", "1", " ", "1", "0", "-", "3", "0",
      "-", "4", "5">>
Key_Short ==
    <<"b", "a", "c", "k", "u", "p", ".", "t", "a", "r", ".", "g", "z">>
Key_Words ==
    <<"b", "a", "c", "k", "u", "p", "-", "i", "n", "v", "a", "l", "i", "d", "-", "t",
      "i", "m", "e", "s", "t", "a", "m", "p", "-", "h", "e", "r", "e", ".", "t", "a",
      "r", ".", "g", "z">>

KeyDates == {Key_Date, Key_DateMonth13, Key_DateNoT}

KeySeparators == {<<"-">>, <<".">>, <<"X">>}

KeyMillis ==
    { <<"1", "2", "3">>, <<"a", "b", "c">>, <<"1", "2", "a">>, <<"-", "1", "2">>,
      <<" ", "1", "2">> }

KeyEnds == {<<"Z">>, <<"z">>}

KeyExtensions == {TarGz, <<>>}

Keys ==
    { Key_Head \o date \o sep \o ms \o end \o ext :
        date \in KeyDates, sep \in KeySeparators, ms \in KeyMillis, end \in KeyEnds,
        ext \in KeyExtensions }
      \cup {Key_Short, Key_Words}

\* a name is about to be generated, or a key of the bucket is about to be
\* parsed
NamesInit ==
    /\ \/ /\ cPc = "in"
          /\ cPrefix \in Prefixes
          /\ cTime \in NameTimes
          /\ cVersion \in VersionTexts
          /\ cName = <<>>
       \/ /\ cPc = "key"
          /\ cPrefix = <<>>
          /\ cTime = ZeroTime
          /\ cVersion = <<>>
          /\ cName \in Keys
    /\ cParsed = [ok |-> FALSE, t |-> ZeroTime]
    /\ RunOff
    /\ RetryOff
    /\ AuxOff

\* cleanupOldBackups, line 209: the key of a listed object is parsed
KeyParse ==
    /\ cPc = "key"
    /\ cParsed' = ParseBackupFilename(cName)
    /\ cPc' = "keyparsed"
    /\ UNCHANGED <<cPrefix, cTime, cVersion, cName, runVars, retryVars, auxVars>>

NamesNext == CodecGenerate \/ CodecParse \/ KeyParse

SpecNames == NamesInit /\ [][NamesNext]_vars

\* the 24 characters before the extension of a key of at least that length
TimestampSegment(key) ==
    LET name == TrimSuffix(key, TarGz)
    IN  SubSeq(name, Len(name) - 23, Len(name))

\* DDDD-DD-DDTDD-DD-DD-DDDZ with valid date and time fields
MatchesTimestampPattern(seg) ==
    /\ Len(seg) = 24
    /\ ParseDashed(SubSeq(seg, 1, 19)).ok
    /\ seg[20] = "-"
    /\ AllDigits(SubSeq(seg, 21, 23))
    /\ seg[24] = "Z"

\* C35: ParseBackupFilename returns an error for every key shorter than the
\* 24-character timestamp width and for every key whose 24 characters before
\* the extension do not match DDDD-DD-DDTDD-DD-DD-DDDZ with valid date and
\* time fields.
C35_ParseRejectsMalformedKeys ==
    (cPc = "keyparsed" /\ cParsed.ok)
        => /\ Len(TrimSuffix(cName, TarGz)) >= 24
           /\ MatchesTimestampPattern(TimestampSegment(cName))

\* the tag GenerateBackupFilename wrote between "pg" and the timestamp
TagOf(name, prefix) ==
    LET head == IF prefix # <<>> THEN TrimSuffix(prefix, <<"-">>) ELSE BackupWord
    IN  SubSeq(name, Len(head) + 4, Len(name) - Len(TarGz) - 25)

\* the decimal digits that stand right before position i of s
RECURSIVE DigitsBefore(_, _)
DigitsBefore(s, i) ==
    IF i > 1 /\ IsDigit(s[i - 1]) THEN DigitsBefore(s, i - 1) \o <<s[i - 1]>> ELSE <<>>

\* C39: the tag written after "pg" is the decimal integer that stands before
\* the first dot of the version string, and the literal "unknown" when the
\* version string is empty, "unknown" or has no such integer.
C39_TagIsMajorOrUnknown ==
    (cPc \in {"generated", "parsed"})
        => LET dot == IndexChar(cVersion, ".")
               major == DigitsBefore(cVersion, dot)
           IN  TagOf(cName, cPrefix)
                 = (IF cVersion = <<>> \/ cVersion = Unknown \/ dot = 0 \/ major = <<>>
                    THEN Unknown ELSE major)

\* ------------------------------------------------------------------------
\* internal/backup/orchestrator.go: Run and cleanupOldBackups, one process
\* invocation after another against the same bucket
\* ------------------------------------------------------------------------
Call(op, key, ok, i) == [op |-> op, key |-> key, ok |-> ok, i |-> i]

\* ratelimit.Config built by NewOrchestrator
\* strconv.ParseBool: [ok, b]
ParseBool(value) ==
    IF value \in { <<"1">>, <<"t">>, <<"T">>, <<"T", "R", "U", "E">>,
                   <<"t", "r", "u", "e">>, <<"T", "r", "u", "e">> }
    THEN [ok |-> TRUE, b |-> TRUE]
    ELSE IF value \in { <<"0">>, <<"f">>, <<"F">>, <<"F", "A", "L", "S", "E">>,
                        <<"f", "a", "l", "s", "e">>, <<"F", "a", "l", "s", "e">> }
    THEN [ok |-> TRUE, b |-> FALSE]
    ELSE [ok |-> FALSE, b |-> FALSE]

\* getEnvInt for the unsigned values: an unset or empty variable, or one that
\* strconv.Atoi rejects, gives the default
getEnvInt(value, defaultValue) ==
    IF value # <<>> /\ AllDigits(value) THEN Atoi(value) ELSE defaultValue

getEnvBool(value, defaultValue) ==
    IF value # <<>> /\ ParseBool(value).ok THEN ParseBool(value).b ELSE defaultValue

\* config.Load: the respawn-protection fields of the Config, from the
\* environment (an unset variable reads as the empty string)
Load(env) ==
    [RespawnProtectionHours |-> getEnvInt(env.RESPAWN_PROTECTION_HOURS, 6),
     ForceBackup |-> getEnvBool(env.FORCE_BACKUP, FALSE)]

RateLimitConfig(c) ==
    [MinInterval |-> GetRespawnProtectionDuration(c.RespawnProtectionHours),
     ForceBackup |-> c.ForceBackup]

\* the first invocation is about to start, its configuration loaded
RunInitWith(configs, buckets) ==
    /\ cfg \in configs
    /\ bucket \in buckets[cfg.BackupFilePrefix]
    /\ bucketAtStart = bucket
    /\ now = Now0
    /\ ticks = 0
    /\ run = 1
    /\ pc = "start"
    /\ startTime = ZeroTime
    /\ lastErr = FALSE
    /\ lastBackupTime = ZeroTime
    /\ info = SentinelInfo
    /\ timestamp = ZeroTime
    /\ filename = <<>>
    /\ storageKey = <<>>
    /\ metadata = NoMetadata
    /\ cutoff = ZeroTime
    /\ objects = <<>>
    /\ idx = 0
    /\ deleted = 0
    /\ cleanupErr = "none"
    /\ result = "none"
    /\ calls = <<>>
    /\ prev = <<>>
    /\ xCtxDone = FALSE
    /\ xCancelAt = 0
    /\ CodecOff
    /\ RetryOff
    /\ AuxOff

\* time passes before a run fetches the last backup time, and while the
\* dump is uploaded
Tick ==
    /\ pc \in {"start", "upload"}
    /\ ticks < MaxTicks
    /\ \E delta \in Deltas : now' = AddMs(now, delta)
    /\ ticks' = ticks + 1
    /\ UNCHANGED <<cfg, bucket, run, pc, localVars, result, calls, bucketAtStart,
                   prev, ctxVars, codecVars, retryVars, auxVars>>

\* Run, lines 46-66: fetch the last backup time and ask the rate limiter
RunCheckRespawn ==
    /\ pc = "start"
    /\ startTime' = now
    /\ \E fetched \in BOOLEAN, headOk \in BOOLEAN :
         LET listed == List(cfg.StorageProvider, cfg.BackupFilePrefix, bucket, <<>>)
         IN  \E first \in (IF listed = <<>> THEN {1} ELSE MostRecent(listed)) :
               LET last == GetLastBackupTime(cfg.StorageProvider, cfg.BackupFilePrefix,
                                             bucket, first, headOk)
                   decision == ShouldBackup(RateLimitConfig(cfg), last, now)
               IN  /\ calls' = Append(calls, Call("GetLastBackupTime", <<>>, fetched, 0))
                   /\ lastErr' = ~fetched
                   /\ lastBackupTime' = IF fetched THEN last ELSE ZeroTime
                   /\ pc' = AfterLastBackupTime(~fetched, decision.proceed).pc
                   /\ result' = AfterLastBackupTime(~fetched, decision.proceed).result
    /\ UNCHANGED <<cfg, bucket, now, ticks, run, info, timestamp, filename, storageKey,
                   metadata, cutoff, objects, idx, deleted, cleanupErr, bucketAtStart,
                   prev, ctxVars, codecVars, retryVars, auxVars>>

\* Run, lines 69-90: fetch the database info and name the backup
RunGetInfo ==
    /\ pc = "info"
    /\ \E got \in BOOLEAN, answer \in DbInfos :
         /\ calls' = Append(calls, Call("GetInfo", <<>>, got, 0))
         /\ info' = IF got THEN answer ELSE SentinelInfo
         /\ pc' = AfterGetInfo(~got).pc
         /\ result' = AfterGetInfo(~got).result
    /\ timestamp' = now
    /\ filename' = GenerateBackupFilename(cfg.BackupFilePrefix, timestamp', info'.Version)
    /\ storageKey' = StorageKey(timestamp', filename')
    /\ UNCHANGED <<cfg, bucket, now, ticks, run, startTime, lastErr, lastBackupTime,
                   metadata, cutoff, objects, idx, deleted, cleanupErr,
                   bucketAtStart, prev, ctxVars, codecVars, retryVars, auxVars>>

\* Run, lines 97-101: start the dump
RunDump ==
    /\ pc = "dump"
    /\ \E started \in BOOLEAN :
         /\ calls' = Append(calls, Call("Dump", <<>>, started, 0))
         /\ pc' = AfterDump(~started).pc
         /\ result' = AfterDump(~started).result
    /\ UNCHANGED <<cfg, bucket, now, ticks, run, localVars, bucketAtStart, prev,
                   ctxVars, codecVars, retryVars, auxVars>>

\* Run, lines 146-190: upload the stream, then decide about the cleanup
RunUpload ==
    /\ pc = "upload"
    /\ metadata' = UploadMetadata(timestamp, info)
    /\ \E stored \in BOOLEAN :
         /\ calls' = Append(calls, Call("Upload", storageKey, stored, 0))
         /\ bucket' = IF stored
                      THEN Upload(cfg.BackupFilePrefix, bucket, storageKey, metadata', now)
                      ELSE bucket
         /\ pc' = AfterUpload(~stored, cfg.RetentionDays).pc
         /\ result' = AfterUpload(~stored, cfg.RetentionDays).result
    /\ UNCHANGED <<cfg, now, ticks, run, startTime, lastErr, lastBackupTime, info,
                   timestamp, filename, storageKey, cutoff, objects, idx, deleted,
                   cleanupErr, bucketAtStart, prev, ctxVars, codecVars, retryVars, auxVars>>

\* cleanupOldBackups, lines 198-204: the cutoff and the listing
RunCleanupList ==
    /\ pc = "cleanup"
    /\ cutoff' = AddDays(now, 0 - cfg.RetentionDays)
    /\ \E listed \in BOOLEAN :
         /\ calls' = Append(calls, Call("List", cfg.BackupFilePrefix, listed, 0))
         /\ IF listed
            THEN /\ objects' = List(cfg.StorageProvider, cfg.BackupFilePrefix, bucket,
                                    cfg.BackupFilePrefix)
                 /\ idx' = 1
                 /\ pc' = "sweep"
                 /\ UNCHANGED <<cleanupErr, result>>
            ELSE /\ cleanupErr' = "err"
                 /\ result' = AfterCleanup(TRUE)
                 /\ pc' = "done"
                 /\ UNCHANGED <<objects, idx>>
    /\ UNCHANGED <<cfg, bucket, now, ticks, run, startTime, lastErr, lastBackupTime,
                   info, timestamp, filename, storageKey, metadata, deleted,
                   bucketAtStart, prev, ctxVars, codecVars, retryVars, auxVars>>

\* cleanupOldBackups, lines 207-238: one iteration of the range loop
RunCleanupObject ==
    /\ pc = "sweep"
    /\ idx <= Len(objects)
    /\ LET obj == objects[idx]
       IN  IF Before(BackupTime(obj), cutoff)
           THEN \E removed \in BOOLEAN :
                  /\ calls' = Append(calls, Call("Delete", obj.key, removed, idx))
                  /\ bucket' = IF removed
                               THEN Delete(cfg.BackupFilePrefix, bucket, obj.key)
                               ELSE bucket
                  /\ deleted' = IF removed THEN deleted + 1 ELSE deleted
                  /\ idx' = AfterDelete(~removed, idx, Len(objects))
           ELSE /\ idx' = idx + 1
                /\ UNCHANGED <<calls, bucket, deleted>>
    /\ UNCHANGED <<cfg, now, ticks, run, pc, startTime, lastErr, lastBackupTime, info,
                   timestamp, filename, storageKey, metadata, cutoff, objects,
                   cleanupErr, result, bucketAtStart, prev, ctxVars, codecVars, retryVars, auxVars>>

\* cleanupOldBackups, lines 240-241, and Run, lines 184-190
RunCleanupDone ==
    /\ pc = "sweep"
    /\ idx > Len(objects)
    /\ cleanupErr' = "nil"
    /\ result' = AfterCleanup(FALSE)
    /\ pc' = "done"
    /\ UNCHANGED <<cfg, bucket, now, ticks, run, startTime, lastErr, lastBackupTime,
                   info, timestamp, filename, storageKey, metadata, cutoff, objects,
                   idx, deleted, calls, bucketAtStart, prev, ctxVars, codecVars, retryVars, auxVars>>

UploadedIn(cs) == \E i \in 1..Len(cs) : cs[i].op = "Upload" /\ cs[i].ok

\* the process exits and the next invocation starts with the same
\* configuration
NextRun ==
    /\ pc = "done"
    /\ run < MaxRuns
    /\ prev' = Append(prev, [result |-> result, uploaded |-> UploadedIn(calls),
                             timestamp |-> timestamp])
    /\ run' = run + 1
    /\ pc' = "start"
    /\ bucketAtStart' = bucket
    /\ startTime' = ZeroTime
    /\ lastErr' = FALSE
    /\ lastBackupTime' = ZeroTime
    /\ info' = SentinelInfo
    /\ timestamp' = ZeroTime
    /\ filename' = <<>>
    /\ storageKey' = <<>>
    /\ metadata' = NoMetadata
    /\ cutoff' = ZeroTime
    /\ objects' = <<>>
    /\ idx' = 0
    /\ deleted' = 0
    /\ cleanupErr' = "none"
    /\ result' = "none"
    /\ calls' = <<>>
    /\ UNCHANGED <<cfg, bucket, now, ticks, ctxVars, codecVars, retryVars, auxVars>>

\* one invocation, every configuration
Configs ==
    [BackupFilePrefix : RunPrefixes, RespawnProtectionHours : Hours,
     ForceBackup : BOOLEAN, RetentionDays : Retentions, StorageProvider : Providers]

RunInit == RunInitWith(Configs, [p \in RunPrefixes |-> InitialBuckets(p)])

Next ==
    \/ Tick
    \/ RunCheckRespawn
    \/ RunGetInfo
    \/ RunDump
    \/ RunUpload
    \/ RunCleanupList
    \/ RunCleanupObject
    \/ RunCleanupDone

Spec == RunInit /\ [][Next]_vars

\* consecutive invocations with respawn protection in force
RespawnConfigs ==
    [BackupFilePrefix : RunPrefixes, RespawnProtectionHours : {1},
     ForceBackup : {FALSE}, RetentionDays : Retentions, StorageProvider : Providers]

RunsInit == RunInitWith(RespawnConfigs, [p \in RunPrefixes |-> RespawnBuckets(p)])

RunsNext == Next \/ NextRun

SpecRuns == RunsInit /\ [][RunsNext]_vars

\* the caller cancels ctx while Run is in progress
RunCancel ==
    /\ pc \notin {"off", "done"}
    /\ ~xCtxDone
    /\ xCtxDone' = TRUE
    /\ xCancelAt' = Len(calls)
    /\ UNCHANGED <<cfg, bucket, now, ticks, run, pc, localVars, result, calls,
                   bucketAtStart, prev, codecVars, retryVars, auxVars>>

\* collaborators that honour ctx: a call that returns after the
\* cancellation returns an error
FailsWhenCancelled ==
    (xCtxDone /\ Len(calls') > Len(calls)) => ~calls'[Len(calls')].ok

\* one invocation under a context that may be cancelled at any point
CancelConfigs ==
    [BackupFilePrefix : {<<>>}, RespawnProtectionHours : {1},
     ForceBackup : BOOLEAN, RetentionDays : Retentions, StorageProvider : {"s3"}]

CancelInit == RunInitWith(CancelConfigs, [p \in RunPrefixes |-> InitialBuckets(p)])

CancelNext == (Next /\ FailsWhenCancelled) \/ RunCancel

SpecCancel == CancelInit /\ [][CancelNext]_vars

TypeOK ==
    /\ pc \in {"start", "info", "dump", "upload", "cleanup", "sweep", "done"}
    /\ result \in {"none", "nil", "err"}
    /\ (pc = "done") = (result # "none")

\* ------------------------------------------------------------------------
\* properties of Run and cleanupOldBackups
\* ------------------------------------------------------------------------
MinInterval == cfg.RespawnProtectionHours * MsPerHour

CallsOf(op) == SelectSeq(calls, LAMBDA c : c.op = op)

KeysOf(s) == [i \in 1..Len(s) |-> s[i].key]

\* an object listed by the cleanup is expired when the time parsed from its
\* key, or its LastModified when the key does not parse, is strictly before
\* now minus RetentionDays days
Expired(obj) ==
    LET parsed == ParseBackupFilename(obj.key)
        whenMade == IF parsed.ok THEN parsed.t ELSE obj.lastModified
    IN  Before(whenMade, AddDays(now, 0 - cfg.RetentionDays))

\* C1: when GetLastBackupTime succeeds with a non-zero time less than the
\* minimum interval in the past and ForceBackup is false, Run returns nil,
\* has made no call besides GetLastBackupTime and has left the bucket as it
\* found it.
C1_SkipLeavesStorageUntouched ==
    (/\ pc # "start"
     /\ ~lastErr
     /\ ~IsZero(lastBackupTime)
     /\ ~cfg.ForceBackup
     /\ Before(startTime, AddMs(lastBackupTime, MinInterval)))
        => (/\ pc = "done"
            /\ result = "nil"
            /\ KeysOf(calls) = <<(<<>>)>>
            /\ calls[1].op = "GetLastBackupTime"
            /\ bucket = bucketAtStart)

C1_Witness ==
    /\ pc = "done"
    /\ result = "nil"
    /\ ~lastErr
    /\ ~cfg.ForceBackup
    /\ cfg.RespawnProtectionHours = 1
    /\ lastBackupTime = AddMs(Now0, -1800000)
    /\ Len(calls) = 1
    /\ bucket = MixedBucket(cfg.BackupFilePrefix)

\* C2: when the first run uploaded a backup with timestamp t and the second
\* run, with ForceBackup false and GetLastBackupTime succeeding, starts less
\* than the minimum interval after t, the second run performs no Upload.
C2_SecondRunWithinIntervalUploadsNothing ==
    (/\ run = 2
     /\ pc # "start"
     /\ prev[1].uploaded
     /\ ~cfg.ForceBackup
     /\ ~lastErr
     /\ Before(startTime, AddMs(prev[1].timestamp, MinInterval)))
        => CallsOf("Upload") = <<>>

\* C3: when the Upload call made by Run returns an error, Run returns a
\* non-nil error.
C3_UploadFailureFailsRun ==
    (\E i \in 1..Len(calls) : calls[i].op = "Upload" /\ ~calls[i].ok)
        => (pc = "done" /\ result = "err")

C3_Witness ==
    /\ pc = "done"
    /\ result = "err"
    /\ Len(calls) = 4
    /\ calls[3].op = "Dump" /\ calls[3].ok
    /\ calls[4].op = "Upload" /\ ~calls[4].ok
    /\ bucket = bucketAtStart

\* C4: when Dump returns an error, Run returns a non-nil error and Upload
\* is never called in that run.
C4_DumpFailureFailsRunWithoutUpload ==
    (\E i \in 1..Len(calls) : calls[i].op = "Dump" /\ ~calls[i].ok)
        => (pc = "done" /\ result = "err" /\ CallsOf("Upload") = <<>>)

C4_Witness ==
    /\ pc = "done"
    /\ result = "err"
    /\ Len(calls) = 3
    /\ calls[3].op = "Dump" /\ ~calls[3].ok
    /\ CallsOf("Upload") = <<>>

\* C5: cleanupOldBackups calls Delete exactly once for each listed object
\* that is expired, in list order, and for no other object.
C5_DeletesExactlyTheExpired ==
    (cleanupErr = "nil")
        => KeysOf(CallsOf("Delete")) = KeysOf(SelectSeq(objects, Expired))

\* objects aged 10, 8 and 2 days, retention 7 days: the 10-day and the
\* 8-day object are deleted
C5_Witness ==
    /\ cleanupErr = "nil"
    /\ cfg.RetentionDays = 7
    /\ bucketAtStart = AgedBucket(cfg.BackupFilePrefix)
    /\ cfg.BackupFilePrefix = Str_db
    /\ Len(objects) = 3
    /\ KeysOf(CallsOf("Delete"))
         = << GenerateBackupFilename(Str_db, AddDays(Now0, -10), Ver_15_2),
              GenerateBackupFilename(Str_db, AddDays(Now0, -8), Ver_15_2) >>

\* C6: once Upload has succeeded, Run returns nil whatever the cleanup does:
\* a List error or failing Delete calls never make the run fail.
C6_CleanupNeverFailsRun ==
    UploadedIn(calls) => (result # "err" /\ (pc = "done" => result = "nil"))

C6_Witness ==
    /\ pc = "done"
    /\ UploadedIn(calls)
    /\ cleanupErr = "err"
    /\ result = "nil"
    /\ calls[Len(calls)].op = "List" /\ ~calls[Len(calls)].ok

\* C7: a failed Delete does not abort the sweep: Delete is attempted for
\* every expired object later in the list, and cleanupOldBackups returns
\* nil.
C7_FailedDeleteDoesNotAbortSweep ==
    (pc = "done" /\ \E l \in 1..Len(calls) : calls[l].op = "List" /\ calls[l].ok)
        => /\ cleanupErr = "nil"
           /\ \A f \in 1..Len(calls) :
                (calls[f].op = "Delete" /\ ~calls[f].ok)
                    => \A j \in (calls[f].i + 1)..Len(objects) :
                         Expired(objects[j])
                             => \E k \in 1..Len(calls) :
                                  calls[k].op = "Delete" /\ calls[k].i = j

C7_Witness ==
    /\ pc = "done"
    /\ cleanupErr = "nil"
    /\ Len(CallsOf("Delete")) = 2
    /\ ~CallsOf("Delete")[1].ok
    /\ CallsOf("Delete")[2].ok
    /\ deleted = 1

\* the codec format <head>-pg<tag>-<YYYY-MM-DDTHH-mm-ss>-<ms>Z.tar.gz for a
\* timestamp: the head and the tag, then 24 characters that parse back to
\* the timestamp's millisecond, then the extension
HasCodecFormat(name, head, tag, t) ==
    /\ Len(name) = Len(head) + 3 + Len(tag) + 1 + 24 + Len(TarGz)
    /\ HasPrefix(name, head \o <<"-", "p", "g">> \o tag \o <<"-">>)
    /\ HasSuffix(name, <<"Z">> \o TarGz)
    /\ ParseBackupFilename(name).ok
    /\ ParseBackupFilename(name).t = TruncateMs(t)

\* C9 as claimed: the key passed to a successful Upload is the string
\* GenerateBackupFilename produces for the configured prefix, the run's
\* timestamp and the detected version.
C9_KeyIsFilename ==
    \A i \in 1..Len(calls) :
        (calls[i].op = "Upload" /\ calls[i].ok)
            => calls[i].key
                 = GenerateBackupFilename(cfg.BackupFilePrefix, timestamp, info.Version)

\* C9 as amended: the key passed to a successful Upload is the timestamp's
\* year and two-digit month as directories, "<YYYY>/<MM>/", followed by the
\* filename, and the filename has the codec format.
C9_KeyIsDatedFilename ==
    \A i \in 1..Len(calls) :
        (calls[i].op = "Upload" /\ calls[i].ok)
            => LET civil == CivilFromDays(timestamp.d)
                   dir == Pad(civil.year, 4) \o <<"/">> \o Pad(civil.month, 2) \o <<"/">>
                   head == IF cfg.BackupFilePrefix = <<>> THEN BackupWord
                           ELSE cfg.BackupFilePrefix
                   tag == IF info = SentinelInfo THEN Unknown ELSE <<"1", "5">>
               IN  /\ HasPrefix(calls[i].key, dir)
                   /\ SubSeq(calls[i].key, Len(dir) + 1, Len(calls[i].key)) = filename
                   /\ filename = GenerateBackupFilename(cfg.BackupFilePrefix, timestamp,
                                                        info.Version)
                   /\ HasCodecFormat(filename, head, tag, timestamp)

C9_Witness ==
    /\ pc = "done"
    /\ result = "nil"
    /\ cfg.BackupFilePrefix = Str_db
    /\ info.Version = Ver_15_2
    /\ timestamp = AddMs(Now0, 600)
    /\ CallsOf("Upload") # <<>>
    /\ CallsOf("Upload")[1].ok
    /\ CallsOf("Upload")[1].key
         = <<"2", "0", "2", "5", "/", "0", "1", "/", "d", "b", "-", "p", "g", "1", "5", "-",
             "2", "0", "2", "5", "-", "0", "1", "-", "2", "1", "T", "1", "0", "-", "3", "0",
             "-", "4", "6", "-", "5", "0", "0", "Z", ".", "t", "a", "r", ".", "g", "z">>

\* C16: when GetLastBackupTime returns an error, Run does not skip, whatever
\* ForceBackup and the minimum interval are: it goes on as with no previous
\* backup, to GetInfo, to Dump and, once the dump has started, to Upload.
C16_FetchErrorNeverSkips ==
    (pc # "start" /\ lastErr)
        => /\ IsZero(lastBackupTime)
           /\ ~(pc = "done" /\ Len(calls) = 1)
           /\ (Len(calls) >= 2) => calls[2].op = "GetInfo"
           /\ (pc = "done")
                => /\ Len(calls) >= 3
                   /\ calls[3].op = "Dump"
                   /\ calls[3].ok => (Len(calls) >= 4 /\ calls[4].op = "Upload")

\* a backup made 20 minutes ago, an interval of one hour, no force: the
\* fetch fails and the run uploads
C16_Witness ==
    /\ pc = "done"
    /\ lastErr
    /\ ~cfg.ForceBackup
    /\ cfg.RespawnProtectionHours = 1
    /\ bucketAtStart = RecentBucket(cfg.BackupFilePrefix)
    /\ UploadedIn(calls)
    /\ result = "nil"

\* C17: when GetInfo returns an error, Run continues with the sentinel
\* info: the filename carries the tag "pgunknown", Dump is called and, once
\* it has started, Upload, with database-name and database-version
\* "unknown"; Run's result is nil exactly when the dump started and the
\* upload succeeded.
C17_InfoFailureUsesSentinel ==
    (\E g \in 1..Len(calls) : calls[g].op = "GetInfo" /\ ~calls[g].ok)
        => /\ info = DatabaseInfo(Unknown, 0, Unknown)
           /\ HasPrefix(filename,
                        (IF cfg.BackupFilePrefix = <<>> THEN BackupWord
                         ELSE cfg.BackupFilePrefix)
                            \o <<"-", "p", "g", "u", "n", "k", "n", "o", "w", "n", "-">>)
           /\ HasSuffix(storageKey, <<"/">> \o filename)
           /\ pc \in {"dump", "upload", "cleanup", "sweep", "done"}
           /\ (pc # "dump") => CallsOf("Dump") # <<>>
           /\ (pc \in {"cleanup", "sweep"} \/ (pc = "done" /\ CallsOf("Dump")[1].ok))
                => CallsOf("Upload") # <<>>
           /\ \A u \in 1..Len(calls) :
                (calls[u].op = "Upload")
                    => /\ calls[u].key = storageKey
                       /\ metadata["database-name"] = Unknown
                       /\ metadata["database-version"] = Unknown
           /\ (pc = "done")
                => result = IF CallsOf("Dump")[1].ok /\ CallsOf("Upload")[1].ok
                            THEN "nil" ELSE "err"

C17_Witness ==
    /\ pc = "done"
    /\ result = "nil"
    /\ Len(calls) >= 2
    /\ calls[2].op = "GetInfo"
    /\ ~calls[2].ok
    /\ cfg.BackupFilePrefix = <<>>
    /\ timestamp = Now0
    /\ UploadedIn(calls)
    /\ storageKey
         =
           <<"2", "0", "2", "5", "/", "0", "1", "/", "b", "a", "c", "k", "u", "p", "-",
             "p", "g", "u", "n", "k", "n", "o", "w", "n", "-", "2", "0", "2", "5", "-",
             "0", "1", "-", "2", "1", "T", "1", "0", "-", "3", "0", "-", "4", "5", "-",
             "9", "0", "0", "Z", ".", "t", "a", "r", ".", "g", "z">>

\* C18: every Upload call of Run carries metadata with the keys
\* backup-timestamp (the run's timestamp in RFC 3339), database-name,
\* database-version and backup-tool, and backup-tool is
\* "railway-postgres-backup" whether or not GetInfo succeeded.
C18_UploadCarriesMetadata ==
    \A u \in 1..Len(calls) :
        (calls[u].op = "Upload")
            => /\ {"backup-timestamp", "database-name", "database-version", "backup-tool"}
                    \subseteq DOMAIN metadata
               /\ metadata["backup-tool"]
                    = <<"r", "a", "i", "l", "w", "a", "y", "-", "p", "o", "s", "t", "g", "r",
                        "e", "s", "-", "b", "a", "c", "k", "u", "p">>
               /\ ParseRFC3339(metadata["backup-timestamp"]).ok
               /\ ParseRFC3339(metadata["backup-timestamp"]).t = TruncateSec(timestamp)
               /\ metadata["database-name"] = info.Name
               /\ metadata["database-version"] = info.Version

C18_Witness ==
    /\ pc = "done"
    /\ Len(calls) >= 2
    /\ calls[2].op = "GetInfo"
    /\ ~calls[2].ok
    /\ CallsOf("Upload") # <<>>
    /\ timestamp = AddMs(Now0, 600)
    /\ metadata["backup-tool"] = ToolName
    /\ metadata["database-name"] = Unknown
    /\ metadata["backup-timestamp"]
         =
           <<"2", "0", "2", "5", "-", "0", "1", "-", "2", "1", "T", "1", "0", ":", "3",
             "0", ":", "4", "6", "Z">>

\* the backup an earlier run uploaded ten days ago, in Run's key layout
EarlierUpload == NestedObject(cfg.BackupFilePrefix, AddDays(Now0, -10))

\* C25: the List(BackupFilePrefix) call of cleanupOldBackups returns every
\* object an earlier run uploaded, for an empty and a non-empty
\* BackupFilePrefix; hence a run with RetentionDays > 0 whose cleanup list
\* and deletes succeed leaves no such object older than the retention
\* period in the bucket.
C25_UploadsAreListedAndExpire ==
    /\ (/\ pc = "sweep"
        /\ idx = 1
        /\ \E b \in 1..Len(bucket) : bucket[b] = EarlierUpload)
          => \E i \in 1..Len(objects) :
                getFullKey(cfg.BackupFilePrefix, objects[i].key) = EarlierUpload.key
    /\ (/\ pc = "done"
        /\ result = "nil"
        /\ cfg.RetentionDays > 0
        /\ cleanupErr = "nil"
        /\ \A c \in 1..Len(calls) : calls[c].ok)
          => ~\E b \in 1..Len(bucket) : bucket[b] = EarlierUpload

\* ------------------------------------------------------------------------
\* internal/storage/factory.go: RetryableStorage.retry around one wrapped
\* operation
\* ------------------------------------------------------------------------
MaxAttemptsBound == 3

StorageOps == {"Upload", "Delete", "List", "GetLastBackupTime"}

RetryConfigs ==
    { RetryConfig(n, d[1], d[2], d[3], d[4]) :
        n \in 0..MaxAttemptsBound,
        d \in { <<1000, 10000, 2, 1>>, <<4000, 10000, 3, 2>>, <<5000, 2000, 2, 1>> } }

\* a Storage method of RetryableStorage has called retry
RetryInit ==
    /\ rPc = "call"
    /\ rConfig \in RetryConfigs
    /\ rOp \in StorageOps
    /\ rFailFirst \in 0..(MaxAttemptsBound + 1)
    /\ rCtxDone = FALSE
    /\ rAttempt = 1
    /\ rDelay = rConfig.InitialDelay
    /\ rCalls = 0
    /\ rWaits = <<>>
    /\ rResult = "none"
    /\ RunOff
    /\ CodecOff
    /\ AuxOff

\* retry, lines 84-93: the loop condition holds; fn is invoked
RetryAttempt ==
    /\ rPc = "call"
    /\ rAttempt <= rConfig.MaxAttempts
    /\ rCalls' = rCalls + 1
    /\ LET failed == rCalls' <= rFailFirst
           after == AfterAttempt(failed, rAttempt, rConfig.MaxAttempts)
       IN  /\ rPc' = IF after = "wait" THEN "wait" ELSE "done"
           /\ rResult' = IF after = "nil" THEN [kind |-> "nil", cause |-> 0]
                         ELSE IF after = "exhausted"
                         THEN [kind |-> "exhausted", cause |-> rCalls']
                         ELSE rResult
    /\ UNCHANGED <<rConfig, rOp, rFailFirst, rCtxDone, rAttempt, rDelay, rWaits,
                   runVars, codecVars, auxVars>>

\* retry, line 109: the loop condition fails
RetryLoopExit ==
    /\ rPc = "call"
    /\ rAttempt > rConfig.MaxAttempts
    /\ rPc' = "done"
    /\ rResult' = [kind |-> "nil", cause |-> 0]
    /\ UNCHANGED <<rConfig, rOp, rFailFirst, rCtxDone, rAttempt, rDelay, rCalls, rWaits,
                   runVars, codecVars, auxVars>>

\* retry, lines 96-106: time.After(delay) fires
RetryWaitElapsed ==
    /\ rPc = "wait"
    /\ AfterWait(rCtxDone) = "retry"
    /\ rWaits' = Append(rWaits, rDelay)
    /\ rDelay' = NextDelay(rDelay, rConfig)
    /\ rAttempt' = rAttempt + 1
    /\ rPc' = "call"
    /\ UNCHANGED <<rConfig, rOp, rFailFirst, rCtxDone, rCalls, rResult, runVars,
                   codecVars, auxVars>>

\* retry, lines 96-98: ctx.Done() is ready
RetryWaitCancelled ==
    /\ rPc = "wait"
    /\ AfterWait(rCtxDone) = "cancelled"
    /\ rPc' = "done"
    /\ rResult' = [kind |-> "ctx", cause |-> 0]
    /\ UNCHANGED <<rConfig, rOp, rFailFirst, rCtxDone, rAttempt, rDelay, rCalls, rWaits,
                   runVars, codecVars, auxVars>>

\* the caller cancels the context
RetryCancel ==
    /\ rPc \in {"call", "wait"}
    /\ ~rCtxDone
    /\ rCtxDone' = TRUE
    /\ UNCHANGED <<rPc, rConfig, rOp, rFailFirst, rAttempt, rDelay, rCalls, rWaits,
                   rResult, runVars, codecVars, auxVars>>

RetryNext ==
    \/ RetryAttempt
    \/ RetryLoopExit
    \/ RetryWaitElapsed
    \/ RetryWaitCancelled
    \/ RetryCancel

SpecRetry == RetryInit /\ [][RetryNext]_vars

\* C10: with MaxAttempts = N >= 1 and no cancellation the wrapped operation
\* is invoked k times when it first succeeds on attempt k <= N (once when
\* it succeeds at once) and N times when it keeps failing, and then an
\* error wrapping the last failure is returned; it is never invoked more
\* than N times.
C10_RetryInvocations ==
    (rConfig.MaxAttempts >= 1 /\ rPc # "off")
        => /\ rCalls <= rConfig.MaxAttempts
           /\ (rPc = "done" /\ ~rCtxDone)
                => IF rFailFirst < rConfig.MaxAttempts
                   THEN rCalls = rFailFirst + 1 /\ rResult.kind = "nil"
                   ELSE /\ rCalls = rConfig.MaxAttempts
                        /\ rResult = [kind |-> "exhausted", cause |-> rConfig.MaxAttempts]

C10_Witness ==
    /\ rPc = "done"
    /\ ~rCtxDone
    /\ rOp = "Upload"
    /\ rConfig.MaxAttempts = 3
    /\ rFailFirst = 3
    /\ rCalls = 3
    /\ rResult.kind = "exhausted"
    /\ rWaits = <<1000, 2000>>

\* C28: for every RetryConfig, MaxAttempts <= 0 included, retry returns nil
\* only if some invocation of the wrapped operation returned nil: Upload,
\* Delete, List and GetLastBackupTime never report success without the
\* backend operation having succeeded.
C28_NilOnlyAfterSuccessfulInvocation ==
    (rPc = "done" /\ rResult.kind = "nil")
        => \E i \in 1..rCalls : i > rFailFirst

\* ------------------------------------------------------------------------
\* internal/backup: GetInfoWithRetry and getServerVersionWithBinary, one
\* call of either
\* ------------------------------------------------------------------------
MaxRetriesBound == 6

PsqlFns == {"GetInfoWithRetry", "getServerVersionWithBinary"}

\* the default policy, the policy of TestRetryDelayProgression and the
\* default policy under PSQL_RETRY_INITIAL_DELAY=60, with every retry budget
\* up to the bound
PsqlConfigs ==
    { PsqlRetryConfig(n, d[1], d[2], 2) :
        n \in 0..MaxRetriesBound,
        d \in { <<2000, 30000>>, <<100, 1000>>, <<60000, 30000>> } }

Out_Row ==
    <<"t", "e", "s", "t", "d", "b", "|", "1", "0", "4", "8", "5", "7", "6", "|", "P",
      "o", "s", "t", "g", "r", "e", "S", "Q", "L", " ", "1", "5", ".", "2", " ", "o",
      "n", " ", "x", "8", "6", "_", "6", "4", "-", "p", "c", "-", "l", "i", "n", "u",
      "x", "-", "g", "n", "u", "\n">>

Out_Garbled ==
    <<"E", "R", "R", "O", "R">>

\* one column of text that happens to hold the word "timeout"
Out_TimeoutText ==
    <<"s", "t", "a", "t", "e", "m", "e", "n", "t", " ", "t", "i", "m", "e", "o", "u",
      "t", "\n">>

Stderr_StartingUp ==
    <<"p", "s", "q", "l", ":", " ", "e", "r", "r", "o", "r", ":", " ", "F", "A", "T",
      "A", "L", ":", " ", " ", "t", "h", "e", " ", "d", "a", "t", "a", "b", "a", "s",
      "e", " ", "s", "y", "s", "t", "e", "m", " ", "i", "s", " ", "s", "t", "a", "r",
      "t", "i", "n", "g", " ", "u", "p", "\n">>

Stderr_AuthFailed ==
    <<"p", "s", "q", "l", ":", " ", "e", "r", "r", "o", "r", ":", " ", "F", "A", "T",
      "A", "L", ":", " ", " ", "p", "a", "s", "s", "w", "o", "r", "d", " ", "a", "u",
      "t", "h", "e", "n", "t", "i", "c", "a", "t", "i", "o", "n", " ", "f", "a", "i",
      "l", "e", "d", " ", "f", "o", "r", " ", "u", "s", "e", "r", " ", "\"", "p", "o",
      "s", "t", "g", "r", "e", "s", "\"", "\n">>

Msg_NotFound ==
    <<"e", "x", "e", "c", ":", " ", "\"", "p", "s", "q", "l", "\"", ":", " ", "e", "x",
      "e", "c", "u", "t", "a", "b", "l", "e", " ", "f", "i", "l", "e", " ", "n", "o",
      "t", " ", "f", "o", "u", "n", "d", " ", "i", "n", " ", "$", "P", "A", "T", "H">>

Msg_IoTimeout ==
    <<"r", "e", "a", "d", " ", "t", "c", "p", " ", "1", "0", ".", "0", ".", "0", ".",
      "2", ":", "5", "4", "3", "2", ":", " ", "i", "/", "o", " ", "t", "i", "m", "e",
      "o", "u", "t">>

Msg_ContextCanceled ==
    <<"c", "o", "n", "t", "e", "x", "t", " ", "c", "a", "n", "c", "e", "l", "e", "d">>

\* what a run of psql may give while the context is live
PsqlOutcomes ==
    { PsqlOutcome("ok", Out_Row, <<>>, <<>>),
      PsqlOutcome("ok", Out_Garbled, <<>>, <<>>),
      PsqlOutcome("ok", Out_TimeoutText, <<>>, <<>>),
      PsqlOutcome("exit", <<>>, Stderr_StartingUp, <<>>),
      PsqlOutcome("exit", <<>>, Stderr_AuthFailed, <<>>),
      PsqlOutcome("error", <<>>, <<>>, Msg_NotFound),
      PsqlOutcome("error", <<>>, <<>>, Msg_IoTimeout) }

\* exec.CommandContext with a cancelled context: the command is not started,
\* or it is killed, or it had already finished
PsqlOutcomesCancelled ==
    PsqlOutcomes \cup { PsqlOutcome("error", <<>>, <<>>, Msg_ContextCanceled) }

NoOutcome == PsqlOutcome("none", <<>>, <<>>, <<>>)

\* what the function returned: kind "ok", "non-retryable" (wrapping err),
\* "cancelled" (wrapping ctx.Err()) or "exhausted"; attempts is the count the
\* message reports
PsqlResult(kind, err, attempts) == [kind |-> kind, err |-> err, attempts |-> attempts]

\* ctx.Err() of a cancelled context
CtxCanceled == PlainError(Msg_ContextCanceled)

PsqlInit ==
    /\ pPc = "attempt"
    /\ pFn \in PsqlFns
    /\ pConfig \in PsqlConfigs
    /\ pCtxDone = FALSE
    /\ pAttempt = 0
    /\ pDelay = pConfig.InitialDelay
    /\ pCalls = 0
    /\ pWaits = <<>>
    /\ pLast = NoOutcome
    /\ pResult = PsqlResult("none", NilError, 0)
    /\ pErrors = <<>>
    /\ RunOff
    /\ CodecOff
    /\ RetryOff
    /\ ClassifyOff
    /\ FindOff
    /\ LimiterOff
    /\ MoreOff

\* the loop body after the wait: psql runs, its result is classified
PsqlAttempt ==
    /\ pPc = "attempt"
    /\ \E outcome \in (IF pCtxDone THEN PsqlOutcomesCancelled ELSE PsqlOutcomes) :
         LET err == PsqlErr(pFn, outcome)
             after == AfterPsql(err, pAttempt, pConfig.MaxRetries)
         IN  /\ pLast' = outcome
             /\ pCalls' = pCalls + 1
             /\ pPc' = IF after = "wait" THEN "wait" ELSE "done"
             /\ pAttempt' = IF after \in {"wait", "exhausted"} THEN pAttempt + 1
                            ELSE pAttempt
             /\ pResult' = IF after = "return" THEN PsqlResult("ok", NilError, pAttempt + 1)
                           ELSE IF after = "fatal"
                           THEN PsqlResult("non-retryable", err, pAttempt + 1)
                           ELSE IF after = "exhausted"
                           THEN PsqlResult("exhausted", NilError, pConfig.MaxRetries)
                           ELSE pResult
             /\ pErrors' = IF err.kind = "nil" THEN pErrors
                           ELSE Append(pErrors, pAttempt + 1)
    /\ UNCHANGED <<pFn, pConfig, pCtxDone, pDelay, pWaits, codecVars, runVars, retryVars,
                   classifyVars, findVars, limiterVars,
                   moreVars>>

\* the select: time.After(delay) fires, the next delay is computed
PsqlWaitElapsed ==
    /\ pPc = "wait"
    /\ AfterWait(pCtxDone) = "retry"
    /\ pWaits' = Append(pWaits, pDelay)
    /\ pDelay' = PsqlNextDelay(pDelay, pConfig)
    /\ pPc' = "attempt"
    /\ UNCHANGED <<pFn, pConfig, pCtxDone, pAttempt, pCalls, pLast, pResult, pErrors,
                   codecVars,
                   runVars, retryVars, classifyVars, findVars, limiterVars,
                   moreVars>>

\* the select: ctx.Done() is ready
PsqlWaitCancelled ==
    /\ pPc = "wait"
    /\ AfterWait(pCtxDone) = "cancelled"
    /\ pPc' = "done"
    /\ pResult' = PsqlResult("cancelled", CtxCanceled, pAttempt)
    /\ UNCHANGED <<pFn, pConfig, pCtxDone, pAttempt, pDelay, pCalls, pWaits, pLast,
                   pErrors, codecVars, runVars, retryVars, classifyVars, findVars, limiterVars,
                   moreVars>>

\* the caller cancels the context
PsqlCancel ==
    /\ pPc \in {"attempt", "wait"}
    /\ ~pCtxDone
    /\ pCtxDone' = TRUE
    /\ UNCHANGED <<pPc, pFn, pConfig, pAttempt, pDelay, pCalls, pWaits, pLast, pResult,
                   pErrors, codecVars, runVars, retryVars, classifyVars, findVars, limiterVars,
                   moreVars>>

PsqlNext ==
    \/ PsqlAttempt
    \/ PsqlWaitElapsed
    \/ PsqlWaitCancelled
    \/ PsqlCancel

SpecPsql == PsqlInit /\ [][PsqlNext]_vars

\* one retry loop of either kind: the storage adapter's or a psql loop
LoopsInit == RetryInit \/ PsqlInit

LoopsNext == RetryNext \/ PsqlNext

SpecLoops == LoopsInit /\ [][LoopsNext]_vars

\* C11: when the context is cancelled while a retry loop waits between two
\* attempts, the loop's only step is to abandon the wait: the storage
\* adapter returns ctx.Err() itself, a psql loop returns an error wrapping
\* it, neither returns the exhaustion error, and the operation is not
\* invoked again (a loop that has returned takes no further step).
C11_CancelledWaitAborts ==
    [][/\ (rPc = "wait" /\ rCtxDone)
            => /\ rPc' = "done"
               /\ rResult' = [kind |-> "ctx", cause |-> 0]
               /\ rCalls' = rCalls
       /\ (pPc = "wait" /\ pCtxDone)
            => /\ pPc' = "done"
               /\ pResult'.kind = "cancelled"
               /\ pResult'.err = CtxCanceled
               /\ pCalls' = pCalls
       /\ (rPc = "done") => UNCHANGED retryVars
       /\ (pPc = "done") => UNCHANGED psqlVars]_vars

C11_Witness ==
    /\ rPc = "done"
    /\ rCtxDone
    /\ rOp = "Upload"
    /\ rConfig = DefaultRetryConfig
    /\ rFailFirst = 3
    /\ rCalls = 1
    /\ rWaits = <<>>
    /\ rResult = [kind |-> "ctx", cause |-> 0]

\* C37: for every retry policy, one whose InitialDelay exceeds its MaxDelay
\* included, every wait between two attempts of the storage adapter's retry
\* and of the psql retry loops is at most MaxDelay, and the waits are
\* non-decreasing (the multipliers modelled are >= 1).
C37_WaitsCappedAndNonDecreasing ==
    /\ (rPc # "off")
         => /\ \A i \in 1..Len(rWaits) : rWaits[i] <= rConfig.MaxDelay
            /\ \A i \in 1..(Len(rWaits) - 1) : rWaits[i] <= rWaits[i + 1]
    /\ (pPc # "off")
         => /\ \A i \in 1..Len(pWaits) : pWaits[i] <= pConfig.MaxDelay
            /\ \A i \in 1..(Len(pWaits) - 1) : pWaits[i] <= pWaits[i + 1]

\* C12: when a psql invocation fails with an error that isRetryableError
\* rejects, the function has returned the error wrapping it: it is not
\* waiting and psql is not invoked again, however many retries remain.
C12_NonRetryableReturnsAtOnce ==
    (/\ pCalls > 0
     /\ PsqlErr(pFn, pLast).kind # "nil"
     /\ ~isRetryableError(PsqlErr(pFn, pLast)))
        => /\ pPc = "done"
           /\ pResult.kind = "non-retryable"
           /\ pResult.err = PsqlErr(pFn, pLast)
           /\ Len(pWaits) = pCalls - 1

C12_Witness ==
    /\ pPc = "done"
    /\ ~pCtxDone
    /\ pFn = "GetInfoWithRetry"
    /\ pConfig.MaxRetries = MaxRetriesBound
    /\ pCalls = 1
    /\ pLast = PsqlOutcome("exit", <<>>, Stderr_AuthFailed, <<>>)
    /\ pResult.kind = "non-retryable"
    /\ pWaits = <<>>

\* C34: when psql exits successfully but its output does not split into
\* exactly three columns, GetInfoWithRetry returns an error at once, whatever
\* the output holds: it does not wait and does not invoke psql again.
C34_ParseFailureReturnsAtOnce ==
    (/\ pFn = "GetInfoWithRetry"
     /\ pCalls > 0
     /\ pLast.kind = "ok"
     /\ CountChar(TrimSpace(pLast.out), "|") + 1 # 3)
        => /\ pPc = "done"
           /\ pResult.kind = "non-retryable"
           /\ Len(pWaits) = pCalls - 1

\* C14: with initial delay 2 s, factor 2.0 and max delay 30 s the waits
\* before the 1st, 2nd, 3rd, ... retry are 2 s, 4 s, 8 s, 16 s, 30 s, 30 s,
\* ...; no wait precedes the first attempt and exactly one wait precedes
\* each later attempt.
C14_DelaySequence ==
    (pPc # "off" /\ pConfig.InitialDelay = 2000 /\ pConfig.MaxDelay = 30000
                 /\ pConfig.BackoffFactor = 2)
        => /\ \A i \in 1..Len(pWaits) :
                pWaits[i] = <<2000, 4000, 8000, 16000, 30000, 30000, 30000, 30000,
                              30000, 30000>>[i]
           /\ Len(pWaits) = IF pPc = "attempt" THEN pCalls ELSE pCalls - 1

C14_Witness ==
    /\ pPc = "done"
    /\ pFn = "getServerVersionWithBinary"
    /\ pCalls = 7
    /\ pResult.kind = "ok"
    /\ pWaits = <<2000, 4000, 8000, 16000, 30000, 30000>>

\* C27: when every invocation fails with a retryable error and the context
\* is live, the psql loops invoke psql exactly MaxRetries times (the number
\* PSQL_RETRY_MAX_ATTEMPTS sets, 5 by default) and return the exhaustion
\* error with one recorded cause per invocation; psql never runs more than
\* MaxRetries times.
C27_InvocationsEqualBudget ==
    /\ (pPc # "off") => pCalls <= pConfig.MaxRetries
    /\ (pPc = "done" /\ pResult.kind = "exhausted")
         => /\ pCalls = pConfig.MaxRetries
            /\ Len(pErrors) = pCalls

\* C27 as amended: the loops invoke psql exactly MaxRetries + 1 times, the
\* first attempt and MaxRetries retries, before they return the exhaustion
\* error, which carries one recorded cause per invocation; psql never runs
\* more than MaxRetries + 1 times.
C27_InvocationsAreRetriesPlusOne ==
    /\ (pPc # "off") => pCalls <= pConfig.MaxRetries + 1
    /\ (pPc = "done" /\ pResult.kind = "exhausted")
         => /\ pCalls = pConfig.MaxRetries + 1
            /\ pErrors = [i \in 1..pCalls |-> i]
    /\ (/\ pPc = "done"
        /\ pLast.kind # "none"
        /\ isRetryableError(PsqlErr(pFn, pLast))
        /\ pResult.kind # "cancelled")
         => pResult.kind = "exhausted"

\* the default policy: six invocations, five waits
C27_Witness ==
    /\ pPc = "done"
    /\ ~pCtxDone
    /\ pFn = "GetInfoWithRetry"
    /\ pConfig = defaultPSQLRetryConfig
    /\ pResult.kind = "exhausted"
    /\ pCalls = 6
    /\ Len(pWaits) = 5
    /\ pErrors = <<1, 2, 3, 4, 5, 6>>

\* ------------------------------------------------------------------------
\* internal/backup: isRetryableError applied to one error
\* ------------------------------------------------------------------------
Str_PsqlError ==
    <<"p", "s", "q", "l", ":", " ", "e", "r", "r", "o", "r", ":", " ">>

Str_startingUp ==
    <<"s", "t", "a", "r", "t", "i", "n", "g", " ", "u", "p">>

Str_57P03 ==
    <<"5", "7", "P", "0", "3">>

Str_CapitalConnectionRefused ==
    <<"C", "o", "n", "n", "e", "c", "t", "i", "o", "n", " ", "r", "e", "f", "u", "s",
      "e", "d">>

Str_couldNotConnect ==
    <<"c", "o", "u", "l", "d", " ", "n", "o", "t", " ", "c", "o", "n", "n", "e", "c",
      "t">>

Str_PasswordAuthFailed ==
    <<"p", "a", "s", "s", "w", "o", "r", "d", " ", "a", "u", "t", "h", "e", "n", "t",
      "i", "c", "a", "t", "i", "o", "n", " ", "f", "a", "i", "l", "e", "d">>

Str_SyntaxError ==
    <<"s", "y", "n", "t", "a", "x", " ", "e", "r", "r", "o", "r", " ", "a", "t", " ",
      "o", "r", " ", "n", "e", "a", "r">>

\* the phrases an error text may carry
ErrorPhrases ==
    { <<>>, Str_StartingUp, Str_startingUp, Str_SQLSTATE57P03, Str_57P03,
      Str_ConnectionRefused, Str_CapitalConnectionRefused, Str_CouldNotConnect,
      Str_couldNotConnect, Str_NoSuchHost, Str_TimeoutExpired, Str_Timeout,
      Str_PasswordAuthFailed, Str_SyntaxError }

\* the texts that carry a phrase: bare, after psql's prefix, before a
\* line end
ErrorTexts(phrase) ==
    { pre \o phrase \o suf : pre \in {<<>>, Str_PsqlError}, suf \in {<<>>, <<"\n">>} }

\* nil, a non-zero exit with the text on stderr, another error with the
\* text as its message
ClassifyErrors(phrase) ==
    {NilError} \cup { ExitError(t) : t \in ErrorTexts(phrase) }
               \cup { PlainError(t) : t \in ErrorTexts(phrase) }

ClassifyInit ==
    /\ ePc = "in"
    /\ ePhrase \in ErrorPhrases
    /\ eErr \in ClassifyErrors(ePhrase)
    /\ eRetryable = FALSE
    /\ RunOff
    /\ CodecOff
    /\ RetryOff
    /\ PsqlOff
    /\ FindOff
    /\ LimiterOff
    /\ MoreOff

Classify ==
    /\ ePc = "in"
    /\ eRetryable' = isRetryableError(eErr)
    /\ ePc' = "classified"
    /\ UNCHANGED <<ePhrase, eErr, codecVars, runVars, retryVars, psqlVars, findVars,
                   limiterVars, moreVars>>

ClassifyNext == Classify

SpecClassify == ClassifyInit /\ [][ClassifyNext]_vars

\* the text of an error: its message and its captured stderr
ErrorContains(err, phrase) == Contains(err.msg, phrase) \/ Contains(err.stderr, phrase)

\* C13: isRetryableError returns true exactly for a non-nil error whose
\* message or captured stderr contains "starting up", SQLSTATE 57P03,
\* "connection refused", "could not connect", "no such host" or "timeout".
C13_RetryableIffPhrase ==
    (ePc = "classified")
        => (eRetryable
              = (/\ eErr.kind # "nil"
                 /\ \/ ErrorContains(eErr, Str_startingUp)
                    \/ ErrorContains(eErr, Str_57P03)
                    \/ ErrorContains(eErr, Str_ConnectionRefused)
                    \/ ErrorContains(eErr, Str_couldNotConnect)
                    \/ ErrorContains(eErr, Str_NoSuchHost)
                    \/ ErrorContains(eErr, Str_Timeout)))

\* C13 as amended: nil is not retryable; an *exec.ExitError is retryable
\* exactly when its stderr carries "the database system is starting up",
\* "SQLSTATE 57P03", "connection refused", "could not connect to server",
\* "no such host" or "timeout expired"; any other error exactly when its
\* message carries "connection refused", "no such host" or "timeout".
C13_RetryableByKindAndPhrase ==
    (ePc = "classified")
        => (eRetryable
              = \/ /\ eErr.kind = "exit"
                    /\ ePhrase \in { Str_StartingUp, Str_SQLSTATE57P03,
                                     Str_ConnectionRefused, Str_CouldNotConnect,
                                     Str_NoSuchHost, Str_TimeoutExpired }
                 \/ /\ eErr.kind = "error"
                    /\ ePhrase \in { Str_ConnectionRefused, Str_NoSuchHost,
                                     Str_TimeoutExpired, Str_Timeout })

\* an error that is not a process exit and whose message says the server
\* is starting up is not retried
C13_Witness ==
    /\ ePc = "classified"
    /\ eErr = PlainError(Str_PsqlError \o Str_StartingUp)
    /\ ~eRetryable

\* ------------------------------------------------------------------------
\* internal/backup: FindBestPGDump / FindBestPSQL applied to one server
\* version and one set of installed binaries
\* ------------------------------------------------------------------------
Tools == {"pg_dump", "psql"}

ServerMajors == 12..18

\* the binaries that may be on the PATH: the packaged versions and the
\* plain name
Installable(tool) == { Binary(tool, v) : v \in {0, 15, 16, 17} }

FindInit ==
    /\ fPc = "in"
    /\ fTool \in Tools
    /\ fMajor \in ServerMajors
    /\ fInstalled \in SUBSET Installable(fTool)
    /\ fResult = [ok |-> FALSE, bin |-> Binary("none", 0)]
    /\ RunOff
    /\ CodecOff
    /\ RetryOff
    /\ PsqlOff
    /\ ClassifyOff
    /\ LimiterOff
    /\ MoreOff

Find ==
    /\ fPc = "in"
    /\ fResult' = FindBest(fTool, fMajor, fInstalled)
    /\ fPc' = "found"
    /\ UNCHANGED <<fTool, fMajor, fInstalled, codecVars, runVars, retryVars, psqlVars,
                   classifyVars, limiterVars, moreVars>>

FindNext == Find

SpecFind == FindInit /\ [][FindNext]_vars

\* the installed versioned clients at or above max(server major, 15)
Suitable ==
    { v \in {15, 16, 17} :
        /\ Binary(fTool, v) \in fInstalled
        /\ v >= (IF fMajor < 15 THEN 15 ELSE fMajor) }

\* C15: when some installed client among 15, 16, 17 has a major version >=
\* max(server major, 15), FindBestPGDump and FindBestPSQL return the
\* installed client with the smallest such version.
C15_ClosestAtOrAbove ==
    (fPc = "found" /\ Suitable # {})
        => /\ fResult.ok
           /\ fResult.bin
                = Binary(fTool, CHOOSE v \in Suitable : \A w \in Suitable : v <= w)

\* ------------------------------------------------------------------------
\* internal/ratelimit: ShouldBackup applied to one lastBackup
\* ------------------------------------------------------------------------
\* minimum intervals: none, 1 hour, the default 6 hours, 23 hours
LimiterHours == {0, 1, 6, 23}

LimiterConfigs ==
    [MinInterval : { GetRespawnProtectionDuration(h) : h \in LimiterHours },
     ForceBackup : BOOLEAN]

\* how long ago the last backup was made: in the future, just now, around
\* one minute, around each interval, days ago
Sinces ==
    { Milliseconds(0 - MsPerHour), Milliseconds(-400), Milliseconds(0), Duration(0, 1),
      Milliseconds(30000), Milliseconds(59500), Milliseconds(MsPerMinute),
      Milliseconds(20 * MsPerMinute), Milliseconds(MsPerHour - 400),
      Duration(MsPerHour - 1, NsPerMs - 1), Milliseconds(MsPerHour),
      Duration(MsPerHour, 1), Milliseconds(2 * MsPerHour),
      Milliseconds(6 * MsPerHour - 1), Milliseconds(6 * MsPerHour),
      Milliseconds(23 * MsPerHour - MsPerMinute), Milliseconds(23 * MsPerHour),
      Milliseconds(10 * MsPerDay) }

\* RESPAWN_PROTECTION_HOURS and FORCE_BACKUP: unset, set, not parseable
LimiterEnvs ==
    [RESPAWN_PROTECTION_HOURS : {<<>>, <<"a", "b", "c">>} \cup { Itoa(h) : h \in LimiterHours },
     FORCE_BACKUP : {<<>>, <<"t", "r", "u", "e">>, <<"f", "a", "l", "s", "e">>}]

\* NewOrchestrator builds the limiter from the loaded Config
LimiterInit ==
    /\ lPc = "in"
    /\ lEnv \in LimiterEnvs
    /\ lConfig = RateLimitConfig(Load(lEnv))
    /\ lConfig \in LimiterConfigs
    /\ lNow \in {Now0, Date(2024, 3, 1, 0, 0, 0, 0, 0)}
    /\ lSince \in Sinces
    /\ lLastBackup \in {ZeroTime, AddNeg(lNow, lSince)}
    /\ lDecision = [proceed |-> FALSE, reason |-> <<>>]
    /\ RunOff
    /\ CodecOff
    /\ RetryOff
    /\ PsqlOff
    /\ ClassifyOff
    /\ FindOff
    /\ MoreOff

Decide ==
    /\ lPc = "in"
    /\ lDecision' = ShouldBackup(lConfig, lLastBackup, lNow)
    /\ lPc' = "decided"
    /\ UNCHANGED <<lConfig, lNow, lSince, lLastBackup, lEnv, codecVars, runVars, retryVars,
                   psqlVars, classifyVars, findVars, moreVars>>

LimiterNext == Decide

SpecLimiter == LimiterInit /\ [][LimiterNext]_vars

\* C19: with ForceBackup set, ShouldBackup returns proceed = true with the
\* reason "forced backup requested" for every lastBackup (zero, recent, old,
\* in the future) and every minimum interval.
C19_ForceAlwaysProceeds ==
    (lPc = "decided" /\ lConfig.ForceBackup)
        => lDecision = [proceed |-> TRUE, reason |-> Reason_Forced]

C19_Witness ==
    /\ lPc = "decided"
    /\ lConfig.ForceBackup
    /\ lConfig.MinInterval = 23 * MsPerHour
    /\ lSince = Milliseconds(30000)
    /\ ~IsZero(lLastBackup)
    /\ lDecision.proceed
    /\ lDecision.reason = Reason_Forced

\* C20: with ForceBackup false and a non-zero lastBackup made lSince ago,
\* ShouldBackup returns proceed = false exactly when lSince is strictly less
\* than the minimum interval; the reason then names lSince and the remaining
\* wait, the minimum interval minus lSince, and otherwise names lSince.
C20_SkipsExactlyWithinInterval ==
    (lPc = "decided" /\ ~lConfig.ForceBackup /\ ~IsZero(lLastBackup))
        => /\ lDecision.proceed = ~DurationLess(lSince, Milliseconds(lConfig.MinInterval))
           /\ lDecision.reason
                = IF lDecision.proceed
                  THEN Str_LastBackupWas \o formatDuration(lSince) \o Str_Ago
                  ELSE Str_LastBackupWas \o formatDuration(lSince) \o Str_Ago
                         \o Str_NextBackupAllowedIn
                         \o formatDuration(DurationMinus(Milliseconds(lConfig.MinInterval),
                                                         lSince))

C20_Witness ==
    /\ lPc = "decided"
    /\ ~lConfig.ForceBackup
    /\ lConfig.MinInterval = MsPerHour
    /\ lSince = Milliseconds(20 * MsPerMinute)
    /\ ~IsZero(lLastBackup)
    /\ ~lDecision.proceed
    /\ lDecision.reason
         =
           <<"l", "a", "s", "t", " ", "b", "a", "c", "k", "u", "p", " ", "w", "a", "s",
             " ", "2", "0", " ", "m", "i", "n", "u", "t", "e", "s", " ", "a", "g", "o",
             ",", " ", "n", "e", "x", "t", " ", "b", "a", "c", "k", "u", "p", " ", "a",
             "l", "l", "o", "w", "e", "d", " ", "i", "n", " ", "4", "0", " ", "m", "i",
             "n", "u", "t", "e", "s">>

\* at the boundary: a last backup made exactly one interval ago proceeds
C20_WitnessBoundary ==
    /\ lPc = "decided"
    /\ ~lConfig.ForceBackup
    /\ lConfig.MinInterval = MsPerHour
    /\ lSince = Milliseconds(MsPerHour)
    /\ ~IsZero(lLastBackup)
    /\ lDecision.proceed
    /\ lDecision.reason
         =
           <<"l", "a", "s", "t", " ", "b", "a", "c", "k", "u", "p", " ", "w", "a", "s",
             " ", "1", ".", "0", " ", "h", "o", "u", "r", "s", " ", "a", "g", "o">>

\* C21: with ForceBackup false, ShouldBackup of the zero time returns
\* proceed = true with the reason "no previous backup found", for every
\* minimum interval.
C21_ZeroTimeProceeds ==
    (lPc = "decided" /\ ~lConfig.ForceBackup /\ IsZero(lLastBackup))
        => /\ lDecision.proceed
           /\ lDecision.reason
                = <<"n", "o", " ", "p", "r", "e", "v", "i", "o", "u", "s", " ", "b", "a",
                    "c", "k", "u", "p", " ", "f", "o", "u", "n", "d">>

C21_Witness ==
    /\ lPc = "decided"
    /\ ~lConfig.ForceBackup
    /\ lConfig.MinInterval = 23 * MsPerHour
    /\ IsZero(lLastBackup)
    /\ lDecision = [proceed |-> TRUE, reason |-> Reason_NoPrevious]

\* ------------------------------------------------------------------------
\* internal/backup/postgres.go: NewPostgresBackup applied to one answer of
\* the version probe and one set of installed binaries
\* ------------------------------------------------------------------------
\* GetServerVersion failed, or it parsed a server version
Probes == {[ok |-> FALSE, Major |-> 0]} \cup [ok : {TRUE}, Major : ServerMajors]

\* a probe can only have succeeded through the psql that findAvailablePSQL
\* names
NewInit ==
    /\ nPc = "in"
    /\ nInstalled \in SUBSET (Installable("pg_dump") \cup Installable("psql"))
    /\ nProbe \in Probes
    /\ nProbe.ok => findAvailablePSQL(nInstalled) \in nInstalled
    /\ nDriver = [pgDumpBin |-> Binary("none", 0), psqlBin |-> Binary("none", 0)]
    /\ RunOff
    /\ CodecOff
    /\ RetryOff
    /\ PsqlOff
    /\ ClassifyOff
    /\ FindOff
    /\ LimiterOff
    /\ StreamOff
    /\ DumpOff

Build ==
    /\ nPc = "in"
    /\ nDriver' = NewPostgresBackup(nProbe, nInstalled)
    /\ nPc' = "built"
    /\ UNCHANGED <<nInstalled, nProbe, codecVars, runVars, retryVars, psqlVars,
                   classifyVars, findVars, limiterVars, streamVars, dumpVars>>

NewNext == Build

SpecNew == NewInit /\ [][NewNext]_vars

\* the installed versioned psql clients
InstalledPsqls == { v \in {15, 16, 17} : Binary("psql", v) \in nInstalled }

\* C22: when the version probe fails, NewPostgresBackup returns a driver
\* whose dump binary is "pg_dump" and whose query binary is "psql".
C22_ProbeFailureUsesPlainNames ==
    (nPc = "built" /\ ~nProbe.ok)
        => nDriver = [pgDumpBin |-> Binary("pg_dump", 0), psqlBin |-> Binary("psql", 0)]

\* C22 as amended: when the version probe fails, NewPostgresBackup returns a
\* driver whose dump binary is "pg_dump" and whose query binary is the
\* newest installed one of psql17, psql16, psql15, or "psql" when none of
\* them is installed.
C22_ProbeFailureKeepsAvailablePsql ==
    (nPc = "built" /\ ~nProbe.ok)
        => /\ nDriver.pgDumpBin = Binary("pg_dump", 0)
           /\ nDriver.psqlBin
                = IF InstalledPsqls = {} THEN Binary("psql", 0)
                  ELSE Binary("psql",
                              CHOOSE v \in InstalledPsqls : \A w \in InstalledPsqls : w <= v)

\* the packaged clients 15, 16 and 17 are installed and the probe fails
C22_Witness ==
    /\ nPc = "built"
    /\ ~nProbe.ok
    /\ nInstalled = { Binary(t, v) : t \in {"pg_dump", "psql"}, v \in {15, 16, 17} }
    /\ nDriver = [pgDumpBin |-> Binary("pg_dump", 0), psqlBin |-> Binary("psql", 17)]

\* the installed versioned clients of a tool, and those of them at or above
\* max(server major, 15)
InstalledVersions(tool) == { v \in {15, 16, 17} : Binary(tool, v) \in nInstalled }

SuitableVersions(tool) ==
    { v \in InstalledVersions(tool) : v >= 15 /\ v >= nProbe.Major }

Newest(versions) == CHOOSE v \in versions : \A w \in versions : w <= v

DriverBin(tool) == IF tool = "pg_dump" THEN nDriver.pgDumpBin ELSE nDriver.psqlBin

\* C36: when the server version is known and no installed versioned client
\* is at or above max(server major, 15), the driver uses the plain name
\* "pg_dump" / "psql", installed or not; no versioned client below the
\* server's major version is ever selected.
C36_NoSuitableClientUsesPlainName ==
    (nPc = "built" /\ nProbe.ok)
        => \A tool \in {"pg_dump", "psql"} :
             /\ (SuitableVersions(tool) = {}) => DriverBin(tool) = Binary(tool, 0)
             /\ (DriverBin(tool).v # 0) => DriverBin(tool).v >= nProbe.Major

\* C36 as amended: when the server version is known and no installed
\* versioned client is at or above max(server major, 15), the driver uses
\* the plain name if it is installed, else the newest installed versioned
\* client, which is then below the server's major version, else (no client
\* of the tool installed) the plain name.
C36_NoSuitableClientFallsBack ==
    (nPc = "built" /\ nProbe.ok)
        => \A tool \in {"pg_dump", "psql"} :
             (SuitableVersions(tool) = {})
                => DriverBin(tool)
                     = (IF Binary(tool, 0) \in nInstalled THEN Binary(tool, 0)
                        ELSE IF InstalledVersions(tool) # {}
                        THEN Binary(tool, Newest(InstalledVersions(tool)))
                        ELSE Binary(tool, 0))

\* a version 18 server with only the version 17 clients installed
C36_Witness ==
    /\ nPc = "built"
    /\ nProbe = [ok |-> TRUE, Major |-> 18]
    /\ nInstalled = {Binary("pg_dump", 17), Binary("psql", 17), Binary("psql", 15)}
    /\ nDriver = [pgDumpBin |-> Binary("pg_dump", 17), psqlBin |-> Binary("psql", 17)]

\* C23: with RESPAWN_PROTECTION_HOURS and FORCE_BACKUP unset the limiter's
\* minimum interval is 23 hours, and a last backup made less than 23 hours
\* ago makes ShouldBackup return proceed = false.
C23_DefaultIntervalIs23Hours ==
    (/\ lPc = "decided"
     /\ lEnv = [RESPAWN_PROTECTION_HOURS |-> <<>>, FORCE_BACKUP |-> <<>>])
        => /\ lConfig.MinInterval = 23 * MsPerHour
           /\ (~IsZero(lLastBackup) /\ DurationLess(lSince, Milliseconds(23 * MsPerHour)))
                => ~lDecision.proceed

\* ------------------------------------------------------------------------
\* internal/backup/orchestrator.go: Run from the start of the counting
\* goroutine to its return, with the storage NewStorage builds. The dump
\* stream delivers the chunks 1..sLen and then ends; the context stays live.
\* ------------------------------------------------------------------------
MaxChunks == 2

\* the counting goroutine treats every read error as the end of the stream
AfterRead_Break(readErr) == "eof"

\* the counting goroutine after reader.Read returned readErr ("eof" for
\* io.EOF): it breaks and the deferred pw.Close() runs, or it calls
\* pw.CloseWithError(err); the readers of pr then see io.EOF or err for good
AfterRead(readErr) == IF readErr = "eof" THEN "eof" ELSE "err"

\* the goroutine puts what it read aside and reads on
AfterChunkRead_Buffered(n) == "read"

\* the counting goroutine after reader.Read returned n bytes: with n > 0 it
\* calls pw.Write, which returns only when a reader of pr has taken the bytes
AfterChunkRead(n) == IF n > 0 THEN "write" ELSE "read"

\* Dump returned the stream, the goroutine is started and the first attempt
\* of the wrapped Upload is running
StreamInit ==
    /\ sPc = "reading"
    /\ sLen \in 1..MaxChunks
    /\ sEnd \in {"eof", "err"}
    /\ sPos = 0
    /\ sClosed = FALSE
    /\ gPc = "read"
    /\ sPipe = "open"
    /\ uAttempt = 1
    /\ uGot = <<>>
    /\ uTaken = 0
    /\ sStored = [ok |-> FALSE, data |-> <<>>]
    /\ sResult = "none"
    /\ RunOff
    /\ CodecOff
    /\ RetryOff
    /\ PsqlOff
    /\ ClassifyOff
    /\ FindOff
    /\ LimiterOff
    /\ NewOff
    /\ DumpOff

\* goroutine, reader.Read(buf): the next chunk, the end of the dump stream,
\* or io.ErrClosedPipe once Run has closed the reader
CountRead ==
    /\ gPc = "read"
    /\ IF sClosed
       THEN /\ gPc' = "done"
            /\ sPipe' = AfterRead("err")
            /\ sPos' = sPos
       ELSE IF sPos < sLen
       THEN /\ gPc' = AfterChunkRead(1)
            /\ sPos' = sPos + 1
            /\ sPipe' = sPipe
       ELSE /\ gPc' = "done"
            /\ sPipe' = AfterRead(sEnd)
            /\ sPos' = sPos
    /\ UNCHANGED <<sPc, sLen, sEnd, sClosed, uAttempt, uGot, uTaken, sStored, sResult,
                   codecVars, runVars, retryVars, psqlVars, classifyVars, findVars,
                   limiterVars, newVars, dumpVars>>

\* the running attempt reads pr while the goroutine is in pw.Write: the
\* write completes and the attempt has the chunk
UploadTake ==
    /\ sPc = "reading"
    /\ gPc = "write"
    /\ uGot' = Append(uGot, sPos)
    /\ uTaken' = uTaken + 1
    /\ gPc' = "read"
    /\ UNCHANGED <<sPc, sLen, sEnd, sPos, sClosed, sPipe, uAttempt, sStored, sResult,
                   codecVars, runVars, retryVars, psqlVars, classifyVars, findVars,
                   limiterVars, newVars, dumpVars>>

\* retry after an attempt, and Run after Upload: success stores what the
\* attempt read and Run returns nil (cleanup cannot fail it); the last
\* failure makes Run return an error; Run's return runs the deferred
\* reader.Close()
AttemptEnds(failed) ==
    LET after == AfterAttempt(failed, uAttempt, DefaultRetryConfig.MaxAttempts)
    IN  /\ sPc' = IF after = "wait" THEN "wait" ELSE "returned"
        /\ sStored' = IF after = "nil" THEN [ok |-> TRUE, data |-> uGot] ELSE sStored
        /\ sResult' = IF after = "nil" THEN AfterUpload(FALSE, 0).result
                      ELSE IF after = "exhausted" THEN AfterUpload(TRUE, 0).result
                      ELSE sResult
        /\ sClosed' = (after # "wait")

\* the running attempt reads pr after pw was closed: io.EOF lets the backend
\* finish the object (which may still fail), an error fails the attempt
UploadEnd ==
    /\ sPc = "reading"
    /\ sPipe # "open"
    /\ \E backendOk \in BOOLEAN : AttemptEnds(sPipe = "err" \/ ~backendOk)
    /\ UNCHANGED <<sLen, sEnd, sPos, gPc, sPipe, uAttempt, uGot, uTaken,
                   codecVars, runVars, retryVars, psqlVars, classifyVars, findVars,
                   limiterVars, newVars, dumpVars>>

\* the backend fails the running attempt, whatever it has read so far
UploadFail ==
    /\ sPc = "reading"
    /\ AttemptEnds(TRUE)
    /\ UNCHANGED <<sLen, sEnd, sPos, gPc, sPipe, uAttempt, uGot, uTaken,
                   codecVars, runVars, retryVars, psqlVars, classifyVars, findVars,
                   limiterVars, newVars, dumpVars>>

\* retry: the wait is over, fn is called again with the same reader
UploadWaitElapsed ==
    /\ sPc = "wait"
    /\ AfterWait(FALSE) = "retry"
    /\ uAttempt' = uAttempt + 1
    /\ uGot' = <<>>
    /\ sPc' = "reading"
    /\ UNCHANGED <<sLen, sEnd, sPos, sClosed, gPc, sPipe, uTaken, sStored, sResult,
                   codecVars, runVars, retryVars, psqlVars, classifyVars, findVars,
                   limiterVars, newVars, dumpVars>>

StreamNext ==
    \/ CountRead
    \/ UploadTake
    \/ UploadEnd
    \/ UploadFail
    \/ UploadWaitElapsed

SpecStream == StreamInit /\ [][StreamNext]_vars

\* the goroutine and the retry loop are scheduled; a blocked pw.Write is
\* not a step
SpecStreamFair ==
    StreamInit /\ [][StreamNext]_vars /\ WF_vars(StreamNext) /\ WF_vars(CountRead)

\* the whole dump stream, from its first chunk
WholeStream == [i \in 1..sLen |-> i]

\* C24: whenever the retrying Upload returns success, the attempt that
\* succeeded read the complete dump stream from its first chunk.
C24_SuccessfulUploadIsComplete ==
    sStored.ok => sStored.data = WholeStream

\* C26: Run returns nil only if the dump stream ended with io.EOF; when it
\* ends with an error, the goroutine closes pw with that error, every
\* attempt that reads pr to its end fails, and Run returns an error.
C26_DumpErrorFailsRun ==
    /\ (sResult = "nil") => (sEnd = "eof" /\ sPipe = "eof")
    /\ (sEnd = "err" /\ gPc = "done") => sPipe = "err"
    /\ (sEnd = "err" /\ sPc = "returned") => (sResult = "err" /\ ~sStored.ok)

\* the dump fails after its last chunk and each of the three attempts reads
\* the error
C26_Witness ==
    /\ sPc = "returned"
    /\ sEnd = "err"
    /\ sLen = MaxChunks
    /\ sPos = sLen
    /\ sPipe = "err"
    /\ gPc = "done"
    /\ uAttempt = 3
    /\ sResult = "err"

\* C29: once Run has returned, the counting goroutine terminates.
C29_GoroutineTerminates == (sPc = "returned") ~> (gPc = "done")

\* ------------------------------------------------------------------------
\* internal/backup/postgres.go: Dump after cmd.Start() succeeded. pg_dump
\* writes dLen chunks to its stdout pipe and exits; the goroutine copies
\* them through gzip into pw, one write of pw per chunk, and gw.Close()
\* writes the trailer; the caller reads the stream and may close it.
\* ------------------------------------------------------------------------
\* chunks the stdout pipe of pg_dump holds before a write blocks
StdoutPipeChunks == 1

\* Dump's goroutine after gw.Close(): with an error it closes pw with it and
\* returns; without, it goes on to cmd.Wait()
AfterGzipClose(closeErr) == IF closeErr THEN "done" ELSE "wait"

DumpInit ==
    /\ dPc = "copy"
    /\ dLen \in 1..MaxChunks
    /\ dExit \in {"ok", "fail"}
    /\ dProduced = 0
    /\ dCopied = 0
    /\ dPending = FALSE
    /\ dRead = 0
    /\ dCaller = "open"
    /\ dSawEnd = FALSE
    /\ dClosedEarly = FALSE
    /\ dStream = "open"
    /\ dProc = "running"
    /\ RunOff
    /\ CodecOff
    /\ RetryOff
    /\ PsqlOff
    /\ ClassifyOff
    /\ FindOff
    /\ LimiterOff
    /\ NewOff
    /\ StreamOff

\* pg_dump writes a chunk to stdout; the write blocks while the pipe is full
ProcWrite ==
    /\ dProc = "running"
    /\ dProduced < dLen
    /\ dProduced - dCopied < StdoutPipeChunks
    /\ dProduced' = dProduced + 1
    /\ UNCHANGED <<dPc, dLen, dExit, dCopied, dPending, dRead, dCaller, dSawEnd,
                   dClosedEarly, dStream, dProc,
                   codecVars, runVars, retryVars, psqlVars, classifyVars, findVars,
                   limiterVars, newVars, streamVars>>

\* pg_dump has written its output and exits; it stays a zombie until waited
ProcExit ==
    /\ dProc = "running"
    /\ dProduced = dLen
    /\ dProc' = "exited"
    /\ UNCHANGED <<dPc, dLen, dExit, dProduced, dCopied, dPending, dRead, dCaller,
                   dSawEnd, dClosedEarly, dStream,
                   codecVars, runVars, retryVars, psqlVars, classifyVars, findVars,
                   limiterVars, newVars, streamVars>>

\* io.Copy reads stdout: a chunk, or the end of the output once pg_dump has
\* exited and the pipe is empty; then gw.Close() is called
TaskRead ==
    /\ dPc = "copy"
    /\ ~dPending
    /\ \/ /\ dCopied < dProduced
          /\ dCopied' = dCopied + 1
          /\ dPending' = TRUE
          /\ dPc' = dPc
       \/ /\ dCopied = dProduced
          /\ dProc # "running"
          /\ dPc' = "close"
          /\ UNCHANGED <<dCopied, dPending>>
    /\ UNCHANGED <<dLen, dExit, dProduced, dRead, dCaller, dSawEnd, dClosedEarly,
                   dStream, dProc,
                   codecVars, runVars, retryVars, psqlVars, classifyVars, findVars,
                   limiterVars, newVars, streamVars>>

\* the caller reads the stream while the goroutine is in a write of pw, from
\* io.Copy or from gw.Close(): the write completes
CallerRead ==
    /\ dCaller = "open"
    /\ \/ /\ dPc = "copy"
          /\ dPending
          /\ dPc' = dPc
       \/ /\ dPc = "close"
          /\ dPc' = AfterGzipClose(FALSE)
    /\ dPending' = FALSE
    /\ dRead' = dRead + 1
    /\ UNCHANGED <<dLen, dExit, dProduced, dCopied, dCaller, dSawEnd, dClosedEarly,
                   dStream, dProc,
                   codecVars, runVars, retryVars, psqlVars, classifyVars, findVars,
                   limiterVars, newVars, streamVars>>

\* a write of pw after the caller closed the stream returns
\* io.ErrClosedPipe: io.Copy returns it, gw.Close() returns an error, and the
\* goroutine closes pw with it and returns
TaskWriteClosed ==
    /\ dCaller = "closed"
    /\ (dPc = "copy" /\ dPending) \/ dPc = "close"
    /\ dPc' = AfterGzipClose(TRUE)
    /\ dPending' = FALSE
    /\ dStream' = "err"
    /\ UNCHANGED <<dLen, dExit, dProduced, dCopied, dRead, dCaller, dSawEnd,
                   dClosedEarly, dProc,
                   codecVars, runVars, retryVars, psqlVars, classifyVars, findVars,
                   limiterVars, newVars, streamVars>>

\* cmd.Wait() returns once pg_dump has exited; pw is closed with the outcome
TaskWait ==
    /\ dPc = "wait"
    /\ dProc = "exited"
    /\ dProc' = "reaped"
    /\ dStream' = IF dExit = "ok" THEN "eof" ELSE "err"
    /\ dPc' = "done"
    /\ UNCHANGED <<dLen, dExit, dProduced, dCopied, dPending, dRead, dCaller, dSawEnd,
                   dClosedEarly,
                   codecVars, runVars, retryVars, psqlVars, classifyVars, findVars,
                   limiterVars, newVars, streamVars>>

\* the caller reads the end of the stream
CallerReadEnd ==
    /\ dCaller = "open"
    /\ dStream # "open"
    /\ ~dSawEnd
    /\ dSawEnd' = TRUE
    /\ UNCHANGED <<dPc, dLen, dExit, dProduced, dCopied, dPending, dRead, dCaller,
                   dClosedEarly, dStream, dProc,
                   codecVars, runVars, retryVars, psqlVars, classifyVars, findVars,
                   limiterVars, newVars, streamVars>>

\* the caller closes the stream
CallerClose ==
    /\ dCaller = "open"
    /\ dCaller' = "closed"
    /\ dClosedEarly' = ~dSawEnd
    /\ UNCHANGED <<dPc, dLen, dExit, dProduced, dCopied, dPending, dRead, dSawEnd,
                   dStream, dProc,
                   codecVars, runVars, retryVars, psqlVars, classifyVars, findVars,
                   limiterVars, newVars, streamVars>>

DumpNext ==
    \/ ProcWrite
    \/ ProcExit
    \/ TaskRead
    \/ CallerRead
    \/ TaskWriteClosed
    \/ TaskWait
    \/ CallerReadEnd
    \/ CallerClose

\* pg_dump and the goroutine are scheduled; the caller is free to stop
SpecDumpFair ==
    /\ DumpInit
    /\ [][DumpNext]_vars
    /\ WF_vars(ProcWrite \/ ProcExit)
    /\ WF_vars(TaskRead \/ TaskWriteClosed \/ TaskWait)

\* C30: when the caller closes the stream before reading its end, Dump's
\* goroutine terminates and pg_dump has been waited on.
C30_ClosedStreamReapsSubprocess ==
    dClosedEarly ~> (dPc = "done" /\ dProc = "reaped")

\* C31: the stream returned by Dump ends with a clean end-of-stream exactly
\* when the copy through the compressor succeeded and pg_dump exited with
\* status zero, ends with an error in every other case, and in both cases
\* is closed only after the exit of pg_dump has been awaited.
C31_StreamClosedAfterWait ==
    /\ (dStream = "eof") => (dExit = "ok" /\ dCopied = dLen)
    /\ (dPc = "done" /\ dProc = "reaped")
         => dStream = (IF dExit = "ok" THEN "eof" ELSE "err")
    /\ (dStream # "open") => dProc = "reaped"

\* the objects of a bucket under the backend prefix
ObjectsUnder(backendPrefix, b) ==
    SelectSeq(b, LAMBDA o : backendPrefix = <<>> \/ HasPrefix(o.key, backendPrefix \o <<"/">>))

Rank(op) ==
    CASE op = "GetLastBackupTime" -> 1
      [] op = "GetInfo" -> 2
      [] op = "Dump" -> 3
      [] op = "Upload" -> 4
      [] op = "List" -> 5
      [] op = "Delete" -> 6

\* C33: in every Run the collaborator calls occur in the order
\* GetLastBackupTime, GetInfo, Dump, Upload, List, Delete*, each of the
\* first five at most once; List and Delete come only after Upload returned
\* success and only when RetentionDays > 0, and Upload only after Dump
\* returned a stream.
C33_CallOrder ==
    /\ \A i \in 1..(Len(calls) - 1) :
         \/ Rank(calls[i].op) < Rank(calls[i + 1].op)
         \/ calls[i].op = "Delete" /\ calls[i + 1].op = "Delete"
    /\ \A i \in 1..Len(calls) :
         /\ calls[i].op \in {"List", "Delete"}
              => /\ cfg.RetentionDays > 0
                 /\ \E j \in 1..(i - 1) : calls[j].op = "Upload" /\ calls[j].ok
         /\ calls[i].op = "Upload"
              => \E j \in 1..(i - 1) : calls[j].op = "Dump" /\ calls[j].ok

\* a run that made all six kinds of call, two deletions among them
C33_Witness ==
    /\ pc = "done"
    /\ Len(calls) = 7
    /\ KeysOf(CallsOf("Delete")) # <<>>
    /\ Len(CallsOf("Delete")) = 2
    /\ [i \in 1..5 |-> calls[i].op]
         = <<"GetLastBackupTime", "GetInfo", "Dump", "Upload", "List">>

\* ------------------------------------------------------------------------
\* Run under cancellation
\* ------------------------------------------------------------------------
\* the rate limiter ended the run: GetLastBackupTime is its only call
Skipped == pc = "done" /\ Len(calls) = 1 /\ calls[1].ok

\* Upload had returned success among the first n calls
UploadedWithin(n) ==
    \E i \in 1..n : i <= Len(calls) /\ calls[i].op = "Upload" /\ calls[i].ok

\* C32: in a run that the rate limiter does not skip, when ctx is cancelled
\* before Upload has returned success and the collaborators fail on a
\* cancelled context, Run returns a non-nil error.
C32_CancelledRunFails ==
    (pc = "done" /\ xCtxDone /\ ~Skipped /\ ~UploadedWithin(xCancelAt))
        => result = "err"

\* cancelled while the upload is in progress, after the dump was started
C32_Witness ==
    /\ pc = "done"
    /\ xCtxDone
    /\ xCancelAt = 3
    /\ Len(calls) = 4
    /\ calls[3].op = "Dump" /\ calls[3].ok
    /\ calls[4].op = "Upload" /\ ~calls[4].ok
    /\ result = "err"

\* C40: between the dump stream and Upload the counting goroutine holds at
\* most one chunk: it has read at most one chunk more than Upload has taken
\* from the pipe, and while it holds that chunk it is blocked in pw.Write.
C40_AtMostOneChunkInFlight ==
    (sPc # "off")
        => /\ sPos - uTaken \in {0, 1}
           /\ (sPos - uTaken = 1) = (gPc = "write")

\* Upload has returned without reading: the goroutine is stalled with the
\* first chunk and has not read the rest of the dump stream
C40_Witness ==
    /\ sPc = "returned"
    /\ gPc = "write"
    /\ sLen = MaxChunks
    /\ sPos = 1
    /\ uTaken = 0

====
